---- MODULE Spec2Model ----
(***************************************************************************)
(* Verification model of the resumable book-summarization pipeline         *)
(* (riassumi_libri.py, riassumi.py, riassuntiveloci.py).                   *)
(*                                                                         *)
(* Specifications:                                                         *)
(*   Spec      - process_book of riassumi_libri.py: runs of the pipeline   *)
(*               over one book directory (state.json + chapters/), with    *)
(*               interruption, I/O failures and loss of files between runs *)
(*   SpecHash  - compute_hash applied to pairs of texts                    *)
(*   SpecChunk - chunk_text, one action per iteration of its while loop    *)
(***************************************************************************)
EXTENDS Integers, Sequences, FiniteSets, TLC

(***************************************************************************)
(* Bounds of the model.                                                    *)
(***************************************************************************)
MaxUnits == 2        \* units (chapters after filter/merge) of a document
MaxRuns == 3         \* runs of process_book over the same book directory
MaxFaults == 1       \* failures, interruptions and lost files in one behaviour
MaxHashLen == 3      \* longest text given to compute_hash in SpecHash
PrefixLen == 2       \* stands for the 8000-character prefix of the claim
MaxTextLen == 5      \* longest text given to chunk_text
MaxSize == 3         \* largest max_size given to chunk_text
MaxOverlap == 2      \* largest overlap given to chunk_text
MaxChunks == 6       \* chunk_text iterations followed before the model stops
MaxSumLen == 4       \* longest text given to summarize_chapter
MaxFiles == 2        \* documents of a batch given to main
MaxRetries == 3      \* largest max_retries given to an adapter
MaxSections == 3     \* sections given to filter_and_merge_sections
MaxWords == 2        \* words of the longest section, and largest threshold
MaxSampleWords == 8       \* words of a text given to split_text_into_chunks
MaxDen == 4               \* largest denominator of a sampling ratio
MaxFastChunks == 2        \* chunks given to process_book_fast
MaxRetryRuns == 2         \* runs of retry_failed_chunks after it
MaxStateIndex == 12       \* largest unit index of a saved ResumeState
MaxChapters == 3     \* most chapters extracted from a book by riassumi.py
MaxPosRuns == 3      \* calls of riassumi.py's process_book on the same book
MaxTitleLen == 3          \* characters of a unit's title in a file name
DigestSpace == 1048573  \* size of the space the digest is folded into

Max(a, b) == IF a >= b THEN a ELSE b
Min(a, b) == IF a <= b THEN a ELSE b

(***************************************************************************)
(* compute_hash: hashlib.md5(text.encode('utf-8')).hexdigest()[:8].        *)
(* MD5 is abstracted by a positional digest of the WHOLE encoded text,     *)
(* folded into DigestSpace and printed as HASH_LEN hexadecimal digits.     *)
(***************************************************************************)
HASH_LEN == 8
\* riassuntiveloci.py line 381: a chunk is kept if it is longer than this
MIN_CHUNK_LEN == 500

\* text.encode('utf-8') of one character of the model's alphabets
Encode(c) ==
    CASE c = "a" -> 97
      [] c = "b" -> 98
      [] c = "c" -> 99
      [] c = "d" -> 100
      [] c = "\n" -> 10
      [] c = " " -> 32
      [] c = "." -> 46
      [] OTHER -> 63

RECURSIVE Md5(_)
Md5(text) ==
    IF text = <<>> THEN 7
    ELSE (Md5(SubSeq(text, 1, Len(text) - 1)) * 131 + Encode(text[Len(text)]))
            % DigestSpace

\* hexdigest()[:8] of a digest value: HASH_LEN hexadecimal digits (0..15)
HexDigest(v) == [k \in 1..HASH_LEN |-> (v \div (16 ^ (HASH_LEN - k))) % 16]

compute_hash(text) == HexDigest(Md5(text))


(***************************************************************************)
(* process_book of riassumi_libri.py.                                      *)
(*                                                                         *)
(* A document is the list `kept` of units produced by                      *)
(* filter_and_merge_sections: unit idx (1-based) has the title Title(idx),  *)
(* a text and the hash compute_hash(text) (flush recomputes the hash over  *)
(* the unit's whole text).  A summary records the model that produced it   *)
(* and the text it summarizes.                                             *)
(***************************************************************************)
Models == {"m1", "m2"}
Texts == {<<"a">>, <<"b">>}
Docs == UNION {[1..n -> Texts] : n \in 1..MaxUnits}

Title(idx) == <<"T", idx>>
Summary(model, text) == [model |-> model, text |-> text]
\* None, or the empty string left in a file opened for writing
NoSummary == [model |-> "none", text |-> <<>>]

VARIABLES
    stateFile,          \* <book_dir>/state.json
    chaptersDir,        \* <book_dir>/chapters: filename -> content
    pc,                 \* position of process_book
    args_model,         \* args.model of the current run
    kept,               \* units of the current run
    resume_state,       \* the ResumeState held by the run
    existing_chapters,  \* result of scan_existing_chapters
    i,                  \* index of the unit the for loop is at
    summary,            \* summary of the unit in flight
    chapter_summaries,  \* list of {'title', 'summary'}
    global_summary,     \* "none", "generated" or "placeholder"
    result,             \* value returned by process_book
    runs,               \* runs started so far
    faults,             \* failures, interruptions and lost files so far
    summarized,         \* units given to summarize_chapter in this run
    skipped,            \* units skipped (summary loaded) in this run
    persisted,          \* units written and checkpointed in this run
    globalCalled,       \* generate_global_summary called call_ollama
    ioFailed,           \* a read or write of this run raised
    stateLost,          \* state.json was deleted since the last run
    fileLost,           \* a chapter file was deleted since the last run
    state_found,        \* load_resume_state returned a state (line 970)
    prev                \* what the previous run did

\* compute_hash applied to two texts (SpecHash)
VARIABLES
    h_pc,               \* "start" or "hashed"
    h_text1, h_text2,   \* the two texts
    h_hash1, h_hash2    \* their hashes

\* chunk_text (SpecChunk)
VARIABLES
    c_pc,               \* "start", "while", "returned" or "overflow"
    c_text, c_max_size, c_overlap,  \* the arguments
    c_start,            \* start of the next window
    c_windows,          \* the windows <<start, end>> cut so far
    c_chunks            \* chunks appended so far

bookVars == <<stateFile, chaptersDir, pc, args_model, kept, resume_state,
              existing_chapters, i, summary, chapter_summaries,
              global_summary, result, runs, faults, summarized, skipped,
              persisted, globalCalled, ioFailed, stateLost, fileLost, state_found,
              prev>>
hashVars == <<h_pc, h_text1, h_text2, h_hash1, h_hash2>>
chunkVars == <<c_pc, c_text, c_max_size, c_overlap, c_start, c_windows,
               c_chunks>>

\* summarize_chapter (SpecSum)
VARIABLES
    s_pc,               \* "start", "map", "reduce", "returned" or "hung"
    s_text, s_max_chars, s_overlap,  \* chapter_text, max_chars, overlap
    s_chunks,           \* chunks
    s_idx,              \* position of the for loop over the chunks
    s_partial,          \* partial_summaries
    s_calls,            \* the prompts given to call_ollama, in order
    s_result            \* the value returned

sumVars == <<s_pc, s_text, s_max_chars, s_overlap, s_chunks, s_idx,
             s_partial, s_calls, s_result>>


\* main's loop over the documents of a batch (SpecBatch)
VARIABLES
    b_pc,               \* "next", "units", "finished" or "exit"
    files,              \* the documents: the number of kept units of each
    b_idx,              \* idx, position of the loop over files (from 1)
    b_unit,             \* position of process_book's loop over kept
    b_summaries,        \* units with an entry in chapter_summaries
    b_completed,        \* resume_state.completed as last saved
    b_failed,           \* units of the document whose summarization failed
    success_count,      \* documents for which process_book returned True
    b_log               \* what happened to each document taken up so far

batchVars == <<b_pc, files, b_idx, b_unit, b_summaries, b_completed,
               b_failed, success_count, b_log>>

\* call_ollama_fast and call_ollama (SpecAdapter)
VARIABLES
    a_pc,               \* "loop", "after" (the loop was left) or "returned"
    a_fn,               \* the function called
    max_retries,        \* its argument max_retries
    attempt,            \* the loop variable, from 0
    a_sent,             \* what the service did with each request sent
    a_slept,            \* the sleeps: after which request, how many seconds
    last_error,         \* last_error of call_ollama_fast
    a_text, a_error     \* the text and the error information returned

adapterVars == <<a_pc, a_fn, max_retries, attempt, a_sent, a_slept,
                 last_error, a_text, a_error>>

\* filter_and_merge_sections (SpecFilter)
VARIABLES
    f_pc,               \* "start" or "returned"
    sections,           \* the list of (title, text)
    min_words, min_words_merge, target_words_merge, dry_run,
    chapters            \* the list of ChapterInfo returned

filterVars == <<f_pc, sections, min_words, min_words_merge,
                target_words_merge, dry_run, chapters>>

coreVars == <<bookVars, hashVars, chunkVars>>

\* split_text_into_chunks (SpecSample)
VARIABLES
    p_pc,               \* "start" or "returned"
    words,              \* text.split(): the length of each word of text
    chunk_size,         \* chunk_size
    sampling_ratio,     \* sampling_ratio, a fraction <<numerator, denominator>>
    selected_chunks     \* the list returned: each chunk the positions of its words

sampleVars == <<p_pc, words, chunk_size, sampling_ratio, selected_chunks>>

\* process_book_fast followed by runs of retry_failed_chunks (SpecFast)
VARIABLES
    v_pc,               \* "start", "chunks", "global", "write", "retry", "returned"
    v_fn,               \* the function running or returned last
    text_chunks,        \* text_chunks of process_book_fast
    v_idx,              \* position of the loop over the chunks
    chunk_summaries,    \* chunk_summaries of process_book_fast
    failed_chunks,      \* failed_chunks, built or loaded
    v_global,           \* global_summary of process_book_fast
    v_result,           \* the value returned
    v_calls,            \* the calls of call_ollama_fast made by the function
    failedFile,         \* <output_dir>/<title>.failed_chunks.json
    outputFile,         \* <output_dir>/<title>.veloce.md
    recoveredFile,      \* <output_dir>/<title>.recovered_chunks.md
    v_io,               \* a write of the function raised
    retries,            \* runs of retry_failed_chunks started so far
    recovered_summaries, still_failed,  \* of retry_failed_chunks
    v_before            \* veloce.md as it was when retry_failed_chunks started

veloceVars == <<v_pc, v_fn, text_chunks, v_idx, chunk_summaries,
                failed_chunks, v_global, v_result, v_calls, failedFile,
                outputFile, recoveredFile, v_io, retries,
                recovered_summaries, still_failed, v_before>>

\* save_resume_state followed by load_resume_state (SpecState)
VARIABLES
    ck_pc,              \* "start", "saved" or "loaded"
    ck_state,           \* the ResumeState given to save_resume_state
    ck_file,            \* state.json
    ck_loaded           \* what load_resume_state returns

\* chapter files written and scan_existing_chapters (SpecNames)
VARIABLES
    n_pc,               \* "write" or "scanned"
    n_units,            \* the units written: index, title, hash
    n_written,          \* how many of them were written so far
    n_dir,              \* os.listdir(chapters_dir): the file names
    n_existing          \* the dictionary scan_existing_chapters returns

\* process_book of riassumi.py with its positional checkpoint (SpecPositional)
VARIABLES
    k_pc,               \* "stopped", "loop", "done" or "failed"
    k_config,           \* model, min_words and chunk_size of the run
    k_chapters,         \* len(chapters)
    k_idx,              \* the chapter the for loop enumerates next
    k_resumed,          \* resume_from_checkpoint
    k_start,            \* start_index
    k_summaries,        \* chapter_summaries: the chapter of each entry
    k_file,             \* the checkpoint file
    k_loaded,           \* checkpoint['chapter_summaries'] as it was loaded
    k_processed,        \* chapters given to summarize_chapter by this run
    k_runs              \* calls of process_book so far

stateVars == <<ck_pc, ck_state, ck_file, ck_loaded>>
posVars == <<k_pc, k_config, k_chapters, k_idx, k_resumed, k_start,
             k_summaries, k_file, k_loaded, k_processed, k_runs>>
namesVars == <<n_pc, n_units, n_written, n_dir, n_existing>>

extraVars == <<sampleVars, veloceVars, stateVars, namesVars, posVars>>
midVars == <<coreVars, sumVars, batchVars, adapterVars, filterVars>>
sampleRest == <<midVars, veloceVars, stateVars, namesVars, posVars>>
veloceRest == <<midVars, sampleVars, stateVars, namesVars, posVars>>
stateRest == <<midVars, sampleVars, veloceVars, namesVars, posVars>>
namesRest == <<midVars, sampleVars, veloceVars, stateVars, posVars>>
posRest == <<midVars, sampleVars, veloceVars, stateVars, namesVars>>
laterVars == <<sumVars, batchVars, adapterVars, filterVars, extraVars>>
sumRest == <<coreVars, batchVars, adapterVars, filterVars, extraVars>>
batchRest == <<coreVars, sumVars, adapterVars, filterVars, extraVars>>
adapterRest == <<coreVars, sumVars, batchVars, filterVars, extraVars>>
filterRest == <<coreVars, sumVars, batchVars, adapterVars, extraVars>>

SampleIdle ==
    /\ p_pc = "idle"
    /\ words = <<>>
    /\ chunk_size = 5
    /\ sampling_ratio = <<1, 1>>
    /\ selected_chunks = <<>>

\* a file that does not exist, and the two kinds of file with content
NoFile == [exists |-> FALSE, content |-> <<>>]
NoOutput == [exists |-> FALSE,
             content |-> [global |-> <<>>, extracts |-> <<>>]]
File(content) == [exists |-> TRUE, content |-> content]

VeloceIdle ==
    /\ v_pc = "idle"
    /\ v_fn = "none"
    /\ text_chunks = <<>>
    /\ v_idx = 1
    /\ chunk_summaries = <<>>
    /\ failed_chunks = <<>>
    /\ v_global = <<>>
    /\ v_result = FALSE
    /\ v_calls = <<>>
    /\ failedFile = NoFile
    /\ outputFile = NoOutput
    /\ recoveredFile = NoFile
    /\ v_io = FALSE
    /\ retries = 0
    /\ recovered_summaries = <<>>
    /\ still_failed = <<>>
    /\ v_before = NoOutput

NamesIdle ==
    /\ n_pc = "idle"
    /\ n_units = <<>>
    /\ n_written = 0
    /\ n_dir = {}
    /\ n_existing = <<>>

\* no checkpoint file in the output directory
NoCheckpoint ==
    [exists |-> FALSE, config |-> "", total_chapters |-> 0,
     current_index |-> 0, chapter_summaries |-> <<>>]

PosIdle ==
    /\ k_pc = "idle"
    /\ k_config = ""
    /\ k_chapters = 0
    /\ k_idx = 0
    /\ k_resumed = FALSE
    /\ k_start = 0
    /\ k_summaries = <<>>
    /\ k_file = NoCheckpoint
    /\ k_loaded = <<>>
    /\ k_processed = {}
    /\ k_runs = 0

FilterIdle ==
    /\ f_pc = "idle"
    /\ sections = <<>>
    /\ min_words = 1
    /\ min_words_merge = 1
    /\ target_words_merge = 1
    /\ dry_run = FALSE
    /\ chapters = <<>>

\* no error information (Python's None in the second place of the result)
NoError == [type |-> "none", attempts |-> 0]

AdapterIdle ==
    /\ a_pc = "idle"
    /\ a_fn = "none"
    /\ max_retries = 1
    /\ attempt = 0
    /\ a_sent = <<>>
    /\ a_slept = <<>>
    /\ last_error = NoError
    /\ a_text = <<"None">>
    /\ a_error = NoError

BatchIdle ==
    /\ b_pc = "idle"
    /\ files = <<>>
    /\ b_idx = 1
    /\ b_unit = 1
    /\ b_summaries = {}
    /\ b_completed = {}
    /\ b_failed = {}
    /\ success_count = 0
    /\ b_log = <<>>
vars == <<bookVars, hashVars, chunkVars, laterVars>>

\* what call_ollama returns: None, or the stripped text of the response
None == <<"None">>
EmptyText == <<>>

SumIdle ==
    /\ s_pc = "idle"
    /\ s_text = <<>>
    /\ s_max_chars = 1
    /\ s_overlap = 0
    /\ s_chunks = <<>>
    /\ s_idx = 1
    /\ s_partial = <<>>
    /\ s_calls = <<>>
    /\ s_result = None


\* ---- ResumeState and its JSON encoding ---------------------------------
RECURSIVE json_key(_)
\* json.dump writes an int key of a dict as its decimal string (digits)
json_key(n) == IF n < 10 THEN <<n>> ELSE Append(json_key(n \div 10), n % 10)

RECURSIVE int_key(_)
\* int(k) of from_dict
int_key(ds) ==
    IF ds = <<>> THEN 0
    ELSE int_key(SubSeq(ds, 1, Len(ds) - 1)) * 10 + ds[Len(ds)]

EmptyState ==
    [completed |-> <<>>, chapter_hashes |-> <<>>, total_chapters |-> 0,
     model |-> "none"]

\* ResumeState.to_dict followed by json.dump
to_dict(state) ==
    [completed |-> state.completed,
     chapter_hashes |->
        [k \in {json_key(x) : x \in DOMAIN state.chapter_hashes} |->
            state.chapter_hashes[int_key(k)]],
     total_chapters |-> state.total_chapters,
     model |-> state.model]

\* a from_dict that reads the hashes under a key the file does not have
from_dict_without_hashes(data) ==
    [completed |-> data.completed,
     chapter_hashes |-> <<>>,
     total_chapters |-> data.total_chapters,
     model |-> data.model]

\* ResumeState.from_dict on the parsed JSON
from_dict(data) ==
    [completed |-> data.completed,
     chapter_hashes |->
        [x \in {int_key(k) : k \in DOMAIN data.chapter_hashes} |->
            data.chapter_hashes[
                CHOOSE k \in DOMAIN data.chapter_hashes : int_key(k) = x]],
     total_chapters |-> data.total_chapters,
     model |-> data.model]

AbsentFile == [kind |-> "absent", data |-> to_dict(EmptyState)]
\* a state.json that was opened for writing and not (fully) written
CorruptFile == [kind |-> "corrupt", data |-> to_dict(EmptyState)]
JsonFile(state) == [kind |-> "json", data |-> to_dict(state)]

\* load_resume_state: None when the file is missing or does not parse
load_resume_state(file) ==
    IF file.kind = "json"
    THEN [found |-> TRUE, state |-> from_dict(file.data)]
    ELSE [found |-> FALSE, state |-> EmptyState]

StateIdle ==
    /\ ck_pc = "idle"
    /\ ck_state = EmptyState
    /\ ck_file = AbsentFile
    /\ ck_loaded = load_resume_state(AbsentFile)

ExtraIdle == SampleIdle /\ VeloceIdle /\ StateIdle /\ NamesIdle /\ PosIdle
LaterIdle == SumIdle /\ BatchIdle /\ AdapterIdle /\ FilterIdle /\ ExtraIdle

\* ---- chapter files -----------------------------------------------------
\* f"{idx:02d}_{safe_title}_{text_hash}.md"
chapter_filename(idx, title, text_hash) ==
    [idx |-> idx, title |-> title, hash |-> text_hash]

\* scan_existing_chapters: existing[idx] = hash for every file name; with
\* several files of one index the one listed last by os.listdir wins
ScanResults(dir) ==
    LET idxs == {f.idx : f \in DOMAIN dir}
    IN {e \in [idxs -> {f.hash : f \in DOMAIN dir}] :
            \A x \in idxs : \E f \in DOMAIN dir : f.idx = x /\ f.hash = e[x]}

RemoveFile(dir, f) == [g \in (DOMAIN dir) \ {f} |-> dir[g]]
PutFile(dir, f, content) ==
    [g \in (DOMAIN dir) \cup {f} |-> IF g = f THEN content ELSE dir[g]]

\* ---- the skip decision of the for loop (lines 1000-1011) ----------------
InCompleted(state, idx) ==
    \E k \in 1..Len(state.completed) : state.completed[k] = idx

\* f.startswith(f"{idx:02d}_") and f.endswith(f"_{text_hash}.md")
MatchingFiles(dir, idx, text_hash) ==
    {f \in DOMAIN dir : f.idx = idx /\ f.hash = text_hash}

\* the skip decision without the comparison of the stored hash
ShouldSkipAnyHash(state, dir, idx, text_hash) ==
    /\ InCompleted(state, idx)
    /\ MatchingFiles(dir, idx, text_hash) # {}

ShouldSkip(state, dir, idx, text_hash) ==
    /\ InCompleted(state, idx)
    /\ idx \in DOMAIN state.chapter_hashes
    /\ state.chapter_hashes[idx] = text_hash
    /\ MatchingFiles(dir, idx, text_hash) # {}

\* the model-change check (lines 983-986)
ModelCheck(state, model) ==
    IF state.model # model
    THEN [state EXCEPT !.completed = <<>>, !.chapter_hashes = <<>>]
    ELSE state

\* a state update that appends the index and leaves the hashes alone
MarkCompletedNoHash(state, idx, text_hash) ==
    [completed |-> IF InCompleted(state, idx) THEN state.completed
                   ELSE Append(state.completed, idx),
     chapter_hashes |-> state.chapter_hashes,
     total_chapters |-> state.total_chapters,
     model |-> state.model]

\* the state update after a chapter file is written (lines 1059-1061)
MarkCompleted(state, idx, text_hash) ==
    [completed |-> IF InCompleted(state, idx) THEN state.completed
                   ELSE Append(state.completed, idx),
     chapter_hashes |->
        [x \in (DOMAIN state.chapter_hashes) \cup {idx} |->
            IF x = idx THEN text_hash ELSE state.chapter_hashes[x]],
     total_chapters |-> state.total_chapters,
     model |-> state.model]

Running == pc \in {"loop", "open", "write", "save", "dump"}
\* a step that fails, interrupts or loses a file uses up one fault
Fault(ok) ==
    IF ok THEN faults' = faults
    ELSE faults < MaxFaults /\ faults' = faults + 1

\* the process is gone: what it held in memory is forgotten
ForgetRun ==
    /\ resume_state' = EmptyState
    /\ existing_chapters' = <<>>
    /\ state_found' = FALSE
    /\ summary' = NoSummary
    /\ i' = 1

Stopped == pc \in {"idle", "done", "crashed"}
InLoop == pc = "loop" /\ i <= Len(kept)
text_hash == compute_hash(kept[i])
chapter_path == chapter_filename(i, Title(i), text_hash)

NoRun ==
    [outcome |-> "idle", kept |-> <<>>, model |-> "none",
     summaries |-> <<>>, skipped |-> {}, persisted |-> {},
     ioFailed |-> FALSE, stateLost |-> FALSE, fileLost |-> FALSE]

\* what is remembered of the run that ends when the next one starts
Snapshot ==
    [outcome |-> pc, kept |-> kept, model |-> args_model,
     summaries |-> chapter_summaries, skipped |-> skipped,
     persisted |-> persisted, ioFailed |-> ioFailed,
     stateLost |-> stateLost, fileLost |-> fileLost]

BookInit ==
    /\ stateFile = AbsentFile
    /\ chaptersDir = <<>>
    /\ pc = "idle"
    /\ args_model = "none"
    /\ kept = <<>>
    /\ resume_state = EmptyState
    /\ existing_chapters = <<>>
    /\ i = 1
    /\ summary = NoSummary
    /\ chapter_summaries = <<>>
    /\ global_summary = "none"
    /\ result = FALSE
    /\ runs = 0
    /\ faults = 0
    /\ summarized = {}
    /\ skipped = {}
    /\ persisted = {}
    /\ globalCalled = FALSE
    /\ ioFailed = FALSE
    /\ stateLost = FALSE
    /\ fileLost = FALSE
    /\ state_found = FALSE
    /\ prev = NoRun

\* groups of variables an action leaves alone
diskVars == <<stateFile, chaptersDir>>
inputVars == <<args_model, kept>>
notBookVars == <<hashVars, chunkVars, laterVars>>
envVars == <<runs, stateLost, fileLost, prev, notBookVars>>
ghostVars == <<summarized, skipped, persisted, globalCalled, ioFailed>>

\* process_book up to the for loop (lines 940-992)
StartRun(model, doc) ==
    /\ Stopped
    /\ runs < MaxRuns
    /\ runs' = runs + 1
    /\ prev' = Snapshot
    /\ args_model' = model
    /\ kept' = doc
    /\ state_found' = load_resume_state(stateFile).found
    /\ LET loaded == load_resume_state(stateFile)
           fresh == [completed |-> <<>>, chapter_hashes |-> <<>>,
                     total_chapters |-> Len(doc), model |-> model]
       IN resume_state' =
            ModelCheck(IF loaded.found THEN loaded.state ELSE fresh, model)
    /\ \E e \in ScanResults(chaptersDir) : existing_chapters' = e
    /\ i' = 1
    /\ summary' = NoSummary
    /\ chapter_summaries' = <<>>
    /\ global_summary' = "none"
    /\ result' = FALSE
    /\ summarized' = {}
    /\ skipped' = {}
    /\ persisted' = {}
    /\ globalCalled' = FALSE
    /\ ioFailed' = FALSE
    /\ stateLost' = FALSE
    /\ fileLost' = FALSE
    /\ pc' = "loop"
    /\ UNCHANGED <<diskVars, faults, notBookVars>>

\* lines 1001-1023: the unit is skipped and its summary read from its file
SkipChapter ==
    /\ InLoop
    /\ ShouldSkip(resume_state, chaptersDir, i, text_hash)
    /\ \E f \in MatchingFiles(chaptersDir, i, text_hash) :
          chapter_summaries' =
              Append(chapter_summaries,
                     [title |-> Title(i), summary |-> chaptersDir[f]])
    /\ skipped' = skipped \cup {i}
    /\ i' = i + 1
    /\ UNCHANGED <<diskVars, inputVars, envVars, pc, resume_state,
                   existing_chapters, state_found, summary, global_summary, result,
                   faults, summarized, persisted, globalCalled, ioFailed>>

\* lines 1032-1047 and 1067-1068: summarize_chapter returns a summary (ok)
\* or None / an empty string
Generate(ok) ==
    /\ summarized' = summarized \cup {i}
    /\ IF ok
       THEN /\ summary' = Summary(args_model, kept[i])
            /\ chapter_summaries' =
                  Append(chapter_summaries,
                         [title |-> Title(i),
                          summary |-> Summary(args_model, kept[i])])
            /\ pc' = "open"
            /\ i' = i
       ELSE /\ summary' = NoSummary
            /\ chapter_summaries' = chapter_summaries
            /\ pc' = "loop"
            /\ i' = i + 1
    /\ UNCHANGED <<diskVars, inputVars, envVars, resume_state,
                   existing_chapters, state_found, global_summary, result, skipped,
                   persisted, globalCalled>>

SummarizeChapter(ok) ==
    /\ InLoop
    /\ ~ShouldSkip(resume_state, chaptersDir, i, text_hash)
    /\ Fault(ok)
    /\ Generate(ok)
    /\ UNCHANGED ioFailed

\* lines 1016-1025: reading the file of a skippable unit raises, the unit
\* is regenerated
RegenerateAfterReadError(ok) ==
    /\ InLoop
    /\ ShouldSkip(resume_state, chaptersDir, i, text_hash)
    /\ faults' = faults + (IF ok THEN 1 ELSE 2)
    /\ faults' <= MaxFaults
    /\ Generate(ok)
    /\ ioFailed' = TRUE

\* the rest of the iteration is abandoned after an exception
\* (lines 1065-1066, or line 548 inside save_resume_state)
NextUnitAfterError ==
    /\ pc' = "loop"
    /\ i' = i + 1
    /\ ioFailed' = TRUE

\* line 1055: open(chapter_path, 'w') truncates or creates the file
OpenChapterFile(ok) ==
    /\ pc = "open"
    /\ Fault(ok)
    /\ IF ok
       THEN /\ chaptersDir' = PutFile(chaptersDir, chapter_path, NoSummary)
            /\ pc' = "write"
            /\ UNCHANGED <<i, ioFailed>>
       ELSE /\ NextUnitAfterError
            /\ UNCHANGED chaptersDir
    /\ UNCHANGED <<stateFile, inputVars, envVars, resume_state,
                   existing_chapters, state_found, summary, chapter_summaries,
                   global_summary, result, summarized, skipped, persisted,
                   globalCalled>>

\* a loop that marks the unit completed without writing its summary
WriteChapterFileSkipped(ok) ==
    /\ pc = "write"
    /\ Fault(ok)
    /\ IF ok
       THEN /\ resume_state' = MarkCompleted(resume_state, i, text_hash)
            /\ pc' = "save"
            /\ UNCHANGED <<i, ioFailed>>
       ELSE /\ NextUnitAfterError
            /\ UNCHANGED resume_state
    /\ UNCHANGED <<diskVars, inputVars, envVars, existing_chapters,
                   state_found, summary, chapter_summaries, global_summary,
                   result, summarized, skipped, persisted, globalCalled>>

\* lines 1056-1061: f.write(summary), then the state held by the run is
\* updated; an exception leaves the state as it was (line 1065)
WriteChapterFile(ok) ==
    /\ pc = "write"
    /\ Fault(ok)
    /\ IF ok
       THEN /\ chaptersDir' = PutFile(chaptersDir, chapter_path, summary)
            /\ resume_state' = MarkCompleted(resume_state, i, text_hash)
            /\ pc' = "save"
            /\ UNCHANGED <<i, ioFailed>>
       ELSE /\ NextUnitAfterError
            /\ UNCHANGED <<chaptersDir, resume_state>>
    /\ UNCHANGED <<stateFile, inputVars, envVars, existing_chapters, state_found, summary,
                   chapter_summaries, global_summary, result, summarized,
                   skipped, persisted, globalCalled>>

\* save_resume_state, line 546: open(state_path, 'w') truncates state.json;
\* an exception is printed and swallowed (line 548)
SaveStateOpen(ok) ==
    /\ pc = "save"
    /\ Fault(ok)
    /\ IF ok
       THEN /\ stateFile' = CorruptFile
            /\ pc' = "dump"
            /\ UNCHANGED <<i, ioFailed>>
       ELSE /\ NextUnitAfterError
            /\ UNCHANGED stateFile
    /\ UNCHANGED <<chaptersDir, inputVars, envVars, resume_state,
                   existing_chapters, state_found, summary, chapter_summaries,
                   global_summary, result, summarized, skipped, persisted,
                   globalCalled>>

\* save_resume_state, line 547: json.dump writes the state
SaveStateDump(ok) ==
    /\ pc = "dump"
    /\ Fault(ok)
    /\ IF ok
       THEN /\ stateFile' = JsonFile(resume_state)
            /\ persisted' = persisted \cup {i}
            /\ pc' = "loop"
            /\ i' = i + 1
            /\ UNCHANGED ioFailed
       ELSE /\ NextUnitAfterError
            /\ UNCHANGED <<stateFile, persisted>>
    /\ UNCHANGED <<chaptersDir, inputVars, envVars, resume_state,
                   existing_chapters, state_found, summary, chapter_summaries,
                   global_summary, result, summarized, skipped,
                   globalCalled>>

\* lines 1070-1072: no summary at all, process_book returns False
NoSummaries ==
    /\ pc = "loop"
    /\ i > Len(kept)
    /\ chapter_summaries = <<>>
    /\ result' = FALSE
    /\ pc' = "done"
    /\ ForgetRun
    /\ UNCHANGED <<diskVars, inputVars, envVars, ghostVars,
                   chapter_summaries, global_summary, faults>>

\* a global step for which a failed reduce is fatal: no placeholder, no
\* output, process_book returns False
GlobalSummaryFatal(ok) ==
    /\ pc = "loop"
    /\ i > Len(kept)
    /\ chapter_summaries # <<>>
    /\ Fault(ok)
    /\ globalCalled' = TRUE
    /\ global_summary' = IF ok THEN "generated" ELSE "none"
    /\ result' = ok
    /\ pc' = "done"
    /\ ForgetRun
    /\ UNCHANGED <<diskVars, inputVars, envVars, chapter_summaries,
                   summarized, skipped, persisted, ioFailed>>

\* lines 1078-1102: generate_global_summary calls call_ollama; without a
\* result the placeholder is used; then the outputs are written (the
\* writers are outside the model and taken to succeed)
GlobalSummary(ok) ==
    /\ pc = "loop"
    /\ i > Len(kept)
    /\ chapter_summaries # <<>>
    /\ Fault(ok)
    /\ globalCalled' = TRUE
    /\ global_summary' = IF ok THEN "generated" ELSE "placeholder"
    /\ result' = TRUE
    /\ pc' = "done"
    /\ ForgetRun
    /\ UNCHANGED <<diskVars, inputVars, envVars, chapter_summaries,
                   summarized, skipped, persisted, ioFailed>>

\* the process is interrupted or killed (main, lines 1222-1224)
Crash ==
    /\ Running
    /\ Fault(FALSE)
    /\ pc' = "crashed"
    /\ ForgetRun
    /\ UNCHANGED <<diskVars, inputVars, envVars, ghostVars,
                   chapter_summaries, global_summary, result>>

\* between two runs state.json is deleted
LoseStateFile ==
    /\ pc \in {"done", "crashed"}
    /\ runs < MaxRuns
    /\ stateFile.kind # "absent"
    /\ Fault(FALSE)
    /\ stateFile' = AbsentFile
    /\ stateLost' = TRUE
    /\ UNCHANGED <<chaptersDir, inputVars, ghostVars, pc, resume_state,
                   existing_chapters, state_found, i, summary, chapter_summaries,
                   global_summary, result, runs, fileLost, prev,
                   notBookVars>>

\* between two runs a chapter file is deleted
LoseChapterFile(f) ==
    /\ pc \in {"done", "crashed"}
    /\ runs < MaxRuns
    /\ f \in DOMAIN chaptersDir
    /\ Fault(FALSE)
    /\ chaptersDir' = RemoveFile(chaptersDir, f)
    /\ fileLost' = TRUE
    /\ UNCHANGED <<stateFile, inputVars, ghostVars, pc, resume_state,
                   existing_chapters, state_found, i, summary, chapter_summaries,
                   global_summary, result, runs, stateLost, prev,
                   notBookVars>>

BookNext ==
    \/ \E model \in Models, doc \in Docs : StartRun(model, doc)
    \/ SkipChapter
    \/ \E ok \in BOOLEAN : SummarizeChapter(ok)
    \/ \E ok \in BOOLEAN : RegenerateAfterReadError(ok)
    \/ \E ok \in BOOLEAN : OpenChapterFile(ok)
    \/ \E ok \in BOOLEAN : WriteChapterFile(ok)
    \/ \E ok \in BOOLEAN : SaveStateOpen(ok)
    \/ \E ok \in BOOLEAN : SaveStateDump(ok)
    \/ NoSummaries
    \/ \E ok \in BOOLEAN : GlobalSummary(ok)
    \/ Crash
    \/ LoseStateFile
    \/ \E f \in DOMAIN chaptersDir : LoseChapterFile(f)

HashIdle ==
    /\ h_pc = "idle"
    /\ h_text1 = <<>>
    /\ h_text2 = <<>>
    /\ h_hash1 = <<>>
    /\ h_hash2 = <<>>

ChunkIdle ==
    /\ c_pc = "idle"
    /\ c_text = <<>>
    /\ c_max_size = 1
    /\ c_overlap = 0
    /\ c_start = 0
    /\ c_windows = <<>>
    /\ c_chunks = <<>>

Init == BookInit /\ HashIdle /\ ChunkIdle /\ LaterIdle
Next == BookNext
Spec == Init /\ [][Next]_vars


(***************************************************************************)
(* SpecHash: compute_hash applied to two texts.                            *)
(***************************************************************************)
HashAlphabet == {"a", "b"}
HashTexts == UNION {[1..n -> HashAlphabet] : n \in 0..MaxHashLen}

HashInit ==
    /\ h_pc = "start"
    /\ h_text1 \in HashTexts
    /\ h_text2 \in HashTexts
    /\ h_hash1 = <<>>
    /\ h_hash2 = <<>>
    /\ BookInit
    /\ ChunkIdle
    /\ LaterIdle

ComputeHashes ==
    /\ h_pc = "start"
    /\ h_hash1' = compute_hash(h_text1)
    /\ h_hash2' = compute_hash(h_text2)
    /\ h_pc' = "hashed"
    /\ UNCHANGED <<h_text1, h_text2, bookVars, chunkVars, laterVars>>

HashNext == ComputeHashes
SpecHash == HashInit /\ [][HashNext]_vars

(***************************************************************************)
(* SpecChunk: chunk_text(text, max_size, overlap), one action per          *)
(* iteration of its while loop.  Positions are 0-based as in Python; a     *)
(* negative or too large index of a slice or of rfind is normalised as     *)
(* Python does.                                                            *)
(***************************************************************************)
ChunkAlphabet == {"a", " ", "."}
ChunkTexts == UNION {[1..n -> ChunkAlphabet] : n \in 0..MaxTextLen}

\* str.strip() removes leading and trailing whitespace
IsSpace(c) == c \in {" ", "\n", "\t"}

RECURSIVE lstrip(_)
lstrip(s) == IF s # <<>> /\ IsSpace(Head(s)) THEN lstrip(Tail(s)) ELSE s

RECURSIVE rstrip(_)
rstrip(s) ==
    IF s # <<>> /\ IsSpace(s[Len(s)])
    THEN rstrip(SubSeq(s, 1, Len(s) - 1))
    ELSE s

strip(s) == rstrip(lstrip(s))

\* the index Python uses for a slice bound k of a string of length n
PyIndex(k, n) == IF k < 0 THEN Max(k + n, 0) ELSE Min(k, n)

\* a slice that ignores its end: text[a:]
PySliceToEnd(text, a, b) ==
    LET lo == PyIndex(a, Len(text))
    IN IF lo < Len(text) THEN SubSeq(text, lo + 1, Len(text)) ELSE <<>>

\* text[a:b]
PySlice(text, a, b) ==
    LET lo == PyIndex(a, Len(text))
        hi == PyIndex(b, Len(text))
    IN IF lo < hi THEN SubSeq(text, lo + 1, hi) ELSE <<>>

\* text.rfind(ch, a, b) for a single character ch
rfind(text, ch, a, b) ==
    LET lo == PyIndex(a, Len(text))
        hi == PyIndex(b, Len(text))
        found == {j \in lo..(hi - 1) : text[j + 1] = ch}
    IN IF found = {} THEN -1
       ELSE CHOOSE j \in found : \A k \in found : k <= j

\* lines 188-199: the end of the window that starts at start
WindowEnd(text, start, max_size, overlap) ==
    LET end == start + max_size
        search_start == Max(start, end - overlap)
        natural_break ==
            Max(rfind(text, ".", search_start, end),
                Max(rfind(text, "\n", search_start, end),
                    rfind(text, " ", search_start, end)))
    IN IF end < Len(text) /\ natural_break > start
       THEN natural_break + 1
       ELSE end

\* a window start that skips the character after the window
NextStartSkipping(text, end, overlap) ==
    IF end < Len(text) THEN end - overlap + 1 ELSE end

\* line 202: start = end - overlap if end < len(text) else end
NextStart(text, end, overlap) ==
    IF end < Len(text) THEN end - overlap ELSE end

ChunkInit ==
    /\ c_pc = "start"
    /\ c_text \in ChunkTexts
    /\ c_max_size \in 1..MaxSize
    /\ c_overlap \in 0..MaxOverlap
    /\ c_start = 0
    /\ c_windows = <<>>
    /\ c_chunks = <<>>
    /\ BookInit
    /\ HashIdle
    /\ LaterIdle

\* a short text returned stripped like the pieces of a long one
ChunkShortStripped ==
    /\ c_pc = "start"
    /\ Len(c_text) <= c_max_size
    /\ c_chunks' = <<strip(c_text)>>
    /\ c_pc' = "returned"
    /\ UNCHANGED <<c_text, c_max_size, c_overlap, c_start, c_windows,
                   bookVars, hashVars, laterVars>>

\* lines 181-182: a text that fits is returned as it is
ChunkShort ==
    /\ c_pc = "start"
    /\ Len(c_text) <= c_max_size
    /\ c_chunks' = <<c_text>>
    /\ c_pc' = "returned"
    /\ UNCHANGED <<c_text, c_max_size, c_overlap, c_start, c_windows,
                   bookVars, hashVars, laterVars>>

\* lines 184-185: chunks = [], start = 0
ChunkEnter ==
    /\ c_pc = "start"
    /\ Len(c_text) > c_max_size
    /\ c_chunks' = <<>>
    /\ c_start' = 0
    /\ c_pc' = "while"
    /\ UNCHANGED <<c_text, c_max_size, c_overlap, c_windows, bookVars,
                   hashVars, laterVars>>

\* lines 187-202: one iteration of the while loop
ChunkIterate ==
    /\ c_pc = "while"
    /\ c_start < Len(c_text)
    /\ Len(c_chunks) < MaxChunks
    /\ LET end == WindowEnd(c_text, c_start, c_max_size, c_overlap)
       IN /\ c_chunks' = Append(c_chunks, strip(PySlice(c_text, c_start, end)))
          /\ c_windows' = Append(c_windows, <<c_start, end>>)
          /\ c_start' = NextStart(c_text, end, c_overlap)
    /\ UNCHANGED <<c_pc, c_text, c_max_size, c_overlap, bookVars, hashVars, laterVars>>

\* line 204: the loop ended, the chunks are returned
ChunkReturn ==
    /\ c_pc = "while"
    /\ c_start >= Len(c_text)
    /\ c_pc' = "returned"
    /\ UNCHANGED <<c_text, c_max_size, c_overlap, c_start, c_windows,
                   c_chunks, bookVars, hashVars, laterVars>>

\* the loop is still running after MaxChunks iterations: the model stops
\* following it
ChunkOverflow ==
    /\ c_pc = "while"
    /\ c_start < Len(c_text)
    /\ Len(c_chunks) >= MaxChunks
    /\ c_pc' = "overflow"
    /\ UNCHANGED <<c_text, c_max_size, c_overlap, c_start, c_windows,
                   c_chunks, bookVars, hashVars, laterVars>>

ChunkNext ==
    \/ ChunkShort
    \/ ChunkEnter
    \/ ChunkIterate
    \/ ChunkReturn
    \/ ChunkOverflow

SpecChunk == ChunkInit /\ [][ChunkNext]_vars

(***************************************************************************)
(* SpecSum: summarize_chapter(chapter_text, ..., max_chars, overlap, ...). *)
(* A call of call_ollama is one step; it returns None, an empty text or    *)
(* the summary of what it was given.                                       *)
(***************************************************************************)
SumAlphabet == {"a", " "}
SumTexts == UNION {[1..n -> SumAlphabet] : n \in 0..MaxSumLen}

\* chunk_text as a function: the while loop of lines 187-202, given up after
\* MaxChunks iterations
RECURSIVE ChunkLoop(_, _, _, _, _)
ChunkLoop(text, max_size, overlap, start, chunks) ==
    IF start >= Len(text) THEN [returned |-> TRUE, chunks |-> chunks]
    ELSE IF Len(chunks) >= MaxChunks
         THEN [returned |-> FALSE, chunks |-> chunks]
    ELSE LET end == WindowEnd(text, start, max_size, overlap)
         IN ChunkLoop(text, max_size, overlap, NextStart(text, end, overlap),
                      Append(chunks, strip(PySlice(text, start, end))))

chunk_text(text, max_size, overlap) ==
    IF Len(text) <= max_size
    THEN [returned |-> TRUE, chunks |-> <<text>>]
    ELSE ChunkLoop(text, max_size, overlap, 0, <<>>)

\* the text the service gives for a prompt built around input
Summarize(input) == <<"#">> \o input
\* the values call_ollama can return for a prompt built around input
Replies(input) == {None, EmptyText, Summarize(input)}
\* a test that takes the empty string for a summary
TruthyNotNone(r) == r # None

\* `if summary:` - None and the empty string are false
Truthy(r) == r # None /\ r # EmptyText

\* "\n\n---\n\n".join(partial_summaries)
RECURSIVE Join(_)
Join(parts) ==
    IF parts = <<>> THEN <<>>
    ELSE IF Len(parts) = 1 THEN parts[1]
    ELSE parts[1] \o <<"---">> \o Join(Tail(parts))

\* a threshold test that sends a text of exactly max_chars to the chunker
IsShortStrict(text, max_chars) == Len(text) < max_chars

\* line 636: if len(chapter_text) <= max_chars
IsShort(text, max_chars) == Len(text) <= max_chars

MapCall(input) == [kind |-> "map", input |-> input]
ReduceCall(input) == [kind |-> "reduce", input |-> input]

SumInit ==
    /\ s_pc = "start"
    /\ s_text \in SumTexts
    /\ s_max_chars \in 1..MaxSize
    /\ s_overlap \in 0..MaxOverlap
    /\ s_chunks = <<>>
    /\ s_idx = 1
    /\ s_partial = <<>>
    /\ s_calls = <<>>
    /\ s_result = None
    /\ BookInit
    /\ HashIdle
    /\ ChunkIdle
    /\ BatchIdle
    /\ AdapterIdle
    /\ FilterIdle
    /\ ExtraIdle

\* lines 636-638: the text is given to call_ollama in one prompt
SumDirect(reply) ==
    /\ s_pc = "start"
    /\ IsShort(s_text, s_max_chars)
    /\ s_calls' = Append(s_calls, MapCall(s_text))
    /\ s_result' = reply
    /\ s_pc' = "returned"
    /\ UNCHANGED <<s_text, s_max_chars, s_overlap, s_chunks, s_idx,
                   s_partial, sumRest>>

\* lines 641-645: the text is split by chunk_text, which may never return
SumChunk ==
    /\ s_pc = "start"
    /\ ~IsShort(s_text, s_max_chars)
    /\ LET r == chunk_text(s_text, s_max_chars, s_overlap)
       IN IF r.returned
          THEN s_chunks' = r.chunks /\ s_pc' = "map"
          ELSE s_chunks' = s_chunks /\ s_pc' = "hung"
    /\ s_idx' = 1
    /\ s_partial' = <<>>
    /\ UNCHANGED <<s_text, s_max_chars, s_overlap, s_calls, s_result,
                   sumRest>>

\* lines 647-655: MAP of one chunk
SumMap(reply) ==
    /\ s_pc = "map"
    /\ s_idx <= Len(s_chunks)
    /\ s_calls' = Append(s_calls, MapCall(s_chunks[s_idx]))
    /\ s_partial' = IF Truthy(reply) THEN Append(s_partial, reply)
                    ELSE s_partial
    /\ s_idx' = s_idx + 1
    /\ UNCHANGED <<s_pc, s_text, s_max_chars, s_overlap, s_chunks, s_result,
                   sumRest>>

\* lines 657-659: no partial summary, None is returned
SumNoPartial ==
    /\ s_pc = "map"
    /\ s_idx > Len(s_chunks)
    /\ s_partial = <<>>
    /\ s_result' = None
    /\ s_pc' = "returned"
    /\ UNCHANGED <<s_text, s_max_chars, s_overlap, s_chunks, s_idx,
                   s_partial, s_calls, sumRest>>

\* lines 661-666: REDUCE of the partial summaries
SumReduce(reply) ==
    /\ s_pc = "map"
    /\ s_idx > Len(s_chunks)
    /\ s_partial # <<>>
    /\ s_calls' = Append(s_calls, ReduceCall(Join(s_partial)))
    /\ s_result' = reply
    /\ s_pc' = "returned"
    /\ UNCHANGED <<s_text, s_max_chars, s_overlap, s_chunks, s_idx,
                   s_partial, sumRest>>

SumNext ==
    \/ \E reply \in Replies(s_text) : SumDirect(reply)
    \/ SumChunk
    \/ \E reply \in Replies(IF s_idx \in DOMAIN s_chunks
                            THEN s_chunks[s_idx] ELSE <<>>) : SumMap(reply)
    \/ SumNoPartial
    \/ \E reply \in Replies(Join(s_partial)) : SumReduce(reply)

SpecSum == SumInit /\ [][SumNext]_vars

(***************************************************************************)
(* SpecBatch: main's loop over the documents (lines 1214-1229) around      *)
(* process_book's loop over the units of a document (lines 994-1072), for  *)
(* documents processed for the first time.  A document is the number of    *)
(* units filter_and_merge_sections keeps of it.                            *)
(***************************************************************************)
\* a document with no unit, with one unit, or with the most units
UnitCounts == {0, 1, MaxUnits}
Batches == UNION {[1..n -> UnitCounts] : n \in 1..MaxFiles}

\* the loop left at the first document that fails
NextFileBreak(idx, outcome) ==
    IF outcome = "done" THEN idx + 1 ELSE Len(files) + 1

\* lines 1214, 1225-1229: the for loop goes on after a document, whatever
\* process_book returned or raised
NextFile(idx, outcome) == idx + 1

LogEntry(outcome) ==
    [units |-> files[b_idx], attempted |-> b_unit - 1,
     summaries |-> b_summaries, completed |-> b_completed,
     failed |-> b_failed, outcome |-> outcome]

\* process_book is over for the document, with the given outcome
EndFile(outcome) ==
    /\ b_log' = Append(b_log, LogEntry(outcome))
    /\ b_idx' = NextFile(b_idx, outcome)
    /\ success_count' = success_count + (IF outcome = "done" THEN 1 ELSE 0)
    /\ b_pc' = "next"
    /\ b_unit' = 1
    /\ b_summaries' = {}
    /\ b_completed' = {}
    /\ b_failed' = {}
    /\ UNCHANGED <<files, batchRest>>

BatchInit ==
    /\ b_pc = "next"
    /\ files \in Batches
    /\ b_idx = 1
    /\ b_unit = 1
    /\ b_summaries = {}
    /\ b_completed = {}
    /\ b_failed = {}
    /\ success_count = 0
    /\ b_log = <<>>
    /\ BookInit
    /\ HashIdle
    /\ ChunkIdle
    /\ SumIdle
    /\ AdapterIdle
    /\ FilterIdle
    /\ ExtraIdle

\* lines 1219-1221, 885-992: process_book is called on the next document
\* and reaches its loop over the units
BatchStartFile ==
    /\ b_pc = "next"
    /\ b_idx <= Len(files)
    /\ files[b_idx] > 0
    /\ b_pc' = "units"
    /\ UNCHANGED <<files, b_idx, b_unit, b_summaries, b_completed, b_failed,
                   success_count, b_log, batchRest>>

\* lines 932-934, 959-961: nothing to summarize, process_book returns False
BatchEmptyFile ==
    /\ b_pc = "next"
    /\ b_idx <= Len(files)
    /\ files[b_idx] = 0
    /\ EndFile("nothing")

\* lines 1032-1068: one unit; summarize_chapter gives a summary or not, and
\* writing the chapter file or the checkpoint may raise
BatchUnit(summarized_ok, saved_ok) ==
    /\ b_pc = "units"
    /\ b_unit <= files[b_idx]
    /\ b_summaries' = IF summarized_ok THEN b_summaries \cup {b_unit}
                      ELSE b_summaries
    /\ b_completed' = IF summarized_ok /\ saved_ok
                      THEN b_completed \cup {b_unit}
                      ELSE b_completed
    /\ b_failed' = IF summarized_ok THEN b_failed ELSE b_failed \cup {b_unit}
    /\ b_unit' = b_unit + 1
    /\ UNCHANGED <<b_pc, files, b_idx, success_count, b_log, batchRest>>

\* lines 1070-1072: no summary at all, process_book returns False
BatchNoSummaries ==
    /\ b_pc = "units"
    /\ b_unit > files[b_idx]
    /\ b_summaries = {}
    /\ EndFile("no summaries")

\* lines 1077-1102: the outputs are written; process_book returns
\* docx_ok or md_ok
BatchWriteOutput(written) ==
    /\ b_pc = "units"
    /\ b_unit > files[b_idx]
    /\ b_summaries # {}
    /\ EndFile(IF written THEN "done" ELSE "not written")

\* lines 1225-1229: process_book raises an exception, main goes on
BatchException ==
    /\ b_pc = "units"
    /\ EndFile("exception")

\* lines 1222-1224: KeyboardInterrupt, main exits
BatchInterrupt ==
    /\ b_pc = "units"
    /\ b_pc' = "exit"
    /\ UNCHANGED <<files, b_idx, b_unit, b_summaries, b_completed, b_failed,
                   success_count, b_log, batchRest>>

\* lines 1231-1239: every document was taken up
BatchFinished ==
    /\ b_pc = "next"
    /\ b_idx > Len(files)
    /\ b_pc' = "finished"
    /\ UNCHANGED <<files, b_idx, b_unit, b_summaries, b_completed, b_failed,
                   success_count, b_log, batchRest>>

BatchNext ==
    \/ BatchStartFile
    \/ BatchEmptyFile
    \/ \E summarized_ok, saved_ok \in BOOLEAN :
          BatchUnit(summarized_ok, saved_ok)
    \/ BatchNoSummaries
    \/ \E written \in BOOLEAN : BatchWriteOutput(written)
    \/ BatchException
    \/ BatchInterrupt
    \/ BatchFinished

SpecBatch == BatchInit /\ [][BatchNext]_vars

(***************************************************************************)
(* SpecAdapter: one call of call_ollama_fast (riassuntiveloci.py) or of    *)
(* call_ollama (riassumi_libri.py); one action per iteration of the retry  *)
(* loop.  Every call site passes max_retries >= 1.                         *)
(***************************************************************************)
Adapters == {"call_ollama_fast", "call_ollama"}

\* what can happen to a request: a response with text, a response with an
\* empty text, requests' Timeout, ConnectionError or HTTPError (raised by
\* raise_for_status), or an exception that is no RequestException
Outcomes == {"text", "empty", "timeout", "connection", "http_error",
             "unknown"}

SomeText == Summarize(<<"p">>)

\* the type call_ollama_fast gives to a failed attempt
Classify(outcome) ==
    IF outcome = "empty" THEN "empty_response" ELSE outcome

\* error information that counts the attempts from 0
ErrorInfoFromZero(outcome, att) ==
    [type |-> Classify(outcome), attempts |-> att]

\* riassuntiveloci.py: "attempts": attempt + 1
ErrorInfo(outcome, att) ==
    [type |-> Classify(outcome), attempts |-> att + 1]

\* a backoff that starts at 2 seconds
FastBackoffFromTwo(att) == 2 ^ (att + 1)

\* riassuntiveloci.py line 155: wait_time = 2 ** attempt
FastBackoff(att) == 2 ^ att

\* riassumi_libri.py line 372: wait_time = 2 ** (attempt + 1)
OllamaBackoff(att) == 2 ^ (att + 1)

Sleep(wait) == Append(a_slept, [after |-> attempt + 1, wait |-> wait])

AdapterInit ==
    /\ a_pc = "loop"
    /\ a_fn \in Adapters
    /\ max_retries \in 1..MaxRetries
    /\ attempt = 0
    /\ a_sent = <<>>
    /\ a_slept = <<>>
    /\ last_error = NoError
    /\ a_text = None
    /\ a_error = NoError
    /\ BookInit
    /\ HashIdle
    /\ ChunkIdle
    /\ SumIdle
    /\ BatchIdle
    /\ FilterIdle
    /\ ExtraIdle

\* an iteration that sleeps after every failed request, the last included
FastAttemptAlwaysSleeps(outcome) ==
    /\ a_pc = "loop"
    /\ a_fn = "call_ollama_fast"
    /\ attempt < max_retries
    /\ a_sent' = Append(a_sent, outcome)
    /\ IF outcome = "text"
       THEN /\ a_pc' = "returned"
            /\ a_text' = SomeText
            /\ a_error' = NoError
            /\ UNCHANGED <<attempt, a_slept, last_error>>
       ELSE /\ last_error' = ErrorInfo(outcome, attempt)
            /\ a_slept' =
                  IF outcome \in {"timeout", "connection", "unknown"}
                  THEN Sleep(FastBackoff(attempt))
                  ELSE a_slept
            /\ attempt' = (IF outcome = "http_error" THEN attempt
                           ELSE attempt + 1)
            /\ a_pc' = (IF outcome = "http_error"
                           \/ attempt + 1 >= max_retries
                        THEN "after" ELSE "loop")
            /\ UNCHANGED <<a_text, a_error>>
    /\ UNCHANGED <<a_fn, max_retries, adapterRest>>

\* riassuntiveloci.py lines 135-188: one iteration of the for loop
FastAttempt(outcome) ==
    /\ a_pc = "loop"
    /\ a_fn = "call_ollama_fast"
    /\ attempt < max_retries
    /\ a_sent' = Append(a_sent, outcome)
    /\ IF outcome = "text"
       THEN /\ a_pc' = "returned"
            /\ a_text' = SomeText
            /\ a_error' = NoError
            /\ UNCHANGED <<attempt, a_slept, last_error>>
       ELSE /\ last_error' = ErrorInfo(outcome, attempt)
            /\ a_slept' =
                  IF outcome \in {"timeout", "connection", "unknown"}
                     /\ attempt < max_retries - 1
                  THEN Sleep(FastBackoff(attempt))
                  ELSE a_slept
            /\ attempt' = (IF outcome = "http_error" THEN attempt
                           ELSE attempt + 1)
            /\ a_pc' = (IF outcome = "http_error"
                           \/ attempt + 1 >= max_retries
                        THEN "after" ELSE "loop")
            /\ UNCHANGED <<a_text, a_error>>
    /\ UNCHANGED <<a_fn, max_retries, adapterRest>>

\* riassuntiveloci.py line 190: return (None, last_error)
FastReturn ==
    /\ a_pc = "after"
    /\ a_fn = "call_ollama_fast"
    /\ a_pc' = "returned"
    /\ a_text' = None
    /\ a_error' = last_error
    /\ UNCHANGED <<a_fn, max_retries, attempt, a_sent, a_slept, last_error,
                   adapterRest>>

\* riassumi_libri.py lines 362-381: one iteration of the for loop
OllamaAttempt(outcome) ==
    /\ a_pc = "loop"
    /\ a_fn = "call_ollama"
    /\ attempt < max_retries
    /\ a_sent' = Append(a_sent, outcome)
    /\ IF outcome \in {"text", "empty"}
       THEN /\ a_pc' = "returned"
            /\ a_text' = (IF outcome = "text" THEN SomeText ELSE EmptyText)
            /\ UNCHANGED <<attempt, a_slept>>
       ELSE IF outcome = "unknown" \/ attempt >= max_retries - 1
       THEN /\ a_pc' = "returned"
            /\ a_text' = None
            /\ UNCHANGED <<attempt, a_slept>>
       ELSE /\ a_slept' = Sleep(OllamaBackoff(attempt))
            /\ attempt' = attempt + 1
            /\ UNCHANGED <<a_pc, a_text>>
    /\ UNCHANGED <<a_fn, max_retries, last_error, a_error, adapterRest>>

AdapterNext ==
    \/ \E outcome \in Outcomes : FastAttempt(outcome)
    \/ FastReturn
    \/ \E outcome \in Outcomes : OllamaAttempt(outcome)

SpecAdapter == AdapterInit /\ [][AdapterNext]_vars

\* the call is not interrupted: the for loop keeps taking its next step,
\* every request is answered or times out and every sleep ends
SpecAdapterFair == SpecAdapter /\ WF_vars(AdapterNext)

(***************************************************************************)
(* SpecFilter: filter_and_merge_sections(sections, min_words,              *)
(* min_words_merge, target_words_merge, dry_run).  A title is a sequence   *)
(* of words and whitespace; the text of the section at position idx is     *)
(* made of the idx-th letter, repeated as its words.                       *)
(***************************************************************************)
Titles == {<<" ", "COVER", " ">>, <<"Chapter">>}
Letters == <<"a", "b", "c", "d">>

\* a text of n one-letter words
RECURSIVE TextOf(_, _)
TextOf(letter, n) ==
    IF n = 0 THEN <<>>
    ELSE IF n = 1 THEN <<letter>>
    ELSE TextOf(letter, n - 1) \o <<" ", letter>>

\* the list of sections with the given titles and numbers of words
SectionList(shape) ==
    [idx \in DOMAIN shape |->
        <<shape[idx][1], TextOf(Letters[idx], shape[idx][2])>>]

\* len(text.split())
count_words(text) ==
    Cardinality({k \in DOMAIN text :
                    /\ ~IsSpace(text[k])
                    /\ (k = 1 \/ IsSpace(text[k - 1]))})

\* re.I: the pattern's words in the case the titles are written in
Lower(word) ==
    CASE word = "COVER" -> "cover"
      [] word = "Chapter" -> "chapter"
      [] OTHER -> word

\* SKIP_TITLE_RE (lines 87-93), anchored at both ends: a single word of the
\* pattern, in any case
SKIP_TITLE_RE(title) ==
    /\ Len(title) = 1
    /\ Lower(title[1]) \in {"cover", "notes", "index"}

\* a test of the title as it is, without strip()
ShouldSkipUnstripped(title) == SKIP_TITLE_RE(title)

\* lines 163-166
should_skip_section(title) == SKIP_TITLE_RE(strip(title))

ChapterInfo(index, title, text, word_count, hash, status, parts) ==
    [index |-> index, title |-> title, text |-> text,
     word_count |-> word_count, hash |-> hash, status |-> status,
     parts |-> parts]

\* lines 232-268, step 1: what the loop adds to chapters (dry run) and to
\* filtered for the section at position idx
DryRunEntry(secs, idx, mw) ==
    LET title == secs[idx][1]
        text == secs[idx][2]
    IN IF should_skip_section(title)
       THEN <<ChapterInfo(idx, title, text, count_words(text),
                          compute_hash(text),
                          "skipped (front/back matter)", <<idx>>)>>
       ELSE IF count_words(text) < mw
       THEN <<ChapterInfo(idx, title, text, count_words(text),
                          compute_hash(text), "skipped (< min_words)",
                          <<idx>>)>>
       ELSE <<>>

FilteredEntry(secs, idx, mw, dry) ==
    LET title == secs[idx][1]
        text == secs[idx][2]
    IN IF should_skip_section(title) THEN <<>>
       ELSE IF count_words(text) < mw /\ dry THEN <<>>
       ELSE <<[title |-> title, text |-> text, words |-> count_words(text),
               text_hash |-> compute_hash(text), idx |-> idx]>>

RECURSIVE DryRunChapters(_, _, _)
DryRunChapters(secs, n, mw) ==
    IF n = 0 THEN <<>>
    ELSE DryRunChapters(secs, n - 1, mw) \o DryRunEntry(secs, n, mw)

RECURSIVE Filtered(_, _, _, _)
Filtered(secs, n, mw, dry) ==
    IF n = 0 THEN <<>>
    ELSE Filtered(secs, n - 1, mw, dry) \o FilteredEntry(secs, n, mw, dry)

\* the buffer of step 2; buf_title is None when it is empty
NoBuf == [title |-> None, texts |-> <<>>, words |-> 0, hashes |-> <<>>,
          indices |-> <<>>]
NewBuf(c) == [title |-> c.title, texts |-> <<c.text>>, words |-> c.words,
              hashes |-> <<c.text_hash>>, indices |-> <<c.idx>>]

\* "\n\n".join(buf_texts)
RECURSIVE JoinTexts(_)
JoinTexts(texts) ==
    IF texts = <<>> THEN <<>>
    ELSE IF Len(texts) = 1 THEN texts[1]
    ELSE texts[1] \o <<"\n", "\n">> \o JoinTexts(Tail(texts))

\* a flush that gives the unit the hash of its first section
flushFirstHash(buf, merged) ==
    IF buf.title = None THEN merged
    ELSE Append(merged,
                [title |-> buf.title, text |-> JoinTexts(buf.texts),
                 words |-> buf.words,
                 hash |-> buf.hashes[1],
                 orig_idx |-> buf.indices[1],
                 was_merged |-> Len(buf.indices) > 1,
                 parts |-> buf.indices])

\* lines 277-290
flush(buf, merged) ==
    IF buf.title = None THEN merged
    ELSE Append(merged,
                [title |-> buf.title, text |-> JoinTexts(buf.texts),
                 words |-> buf.words,
                 hash |-> compute_hash(JoinTexts(buf.texts)),
                 orig_idx |-> buf.indices[1],
                 was_merged |-> Len(buf.indices) > 1,
                 parts |-> buf.indices])

\* a merge rule that looks at the buffer only
ShouldAppendBelowTarget(buf, c, mwm, twm) == buf.words < twm

\* a merge rule that asks for both conditions
ShouldAppendBothShort(buf, c, mwm, twm) == buf.words < twm /\ c.words < mwm

\* line 297
ShouldAppend(buf, c, mwm, twm) == buf.words < twm \/ c.words < mwm

\* lines 292-306, step 2
RECURSIVE MergePass(_, _, _, _, _)
MergePass(cands, buf, merged, mwm, twm) ==
    IF cands = <<>> THEN flush(buf, merged)
    ELSE LET c == Head(cands)
         IN IF buf.title = None
            THEN MergePass(Tail(cands), NewBuf(c), merged, mwm, twm)
            ELSE IF ShouldAppend(buf, c, mwm, twm)
            THEN MergePass(Tail(cands),
                           [title |-> buf.title,
                            texts |-> Append(buf.texts, c.text),
                            words |-> buf.words + c.words,
                            hashes |-> Append(buf.hashes, c.text_hash),
                            indices |-> Append(buf.indices, c.idx)],
                           merged, mwm, twm)
            ELSE MergePass(Tail(cands), NewBuf(c), flush(buf, merged),
                           mwm, twm)

\* lines 308-318, step 3
Converted(merged) ==
    [k \in DOMAIN merged |->
        ChapterInfo(k, merged[k].title, merged[k].text, merged[k].words,
                    merged[k].hash,
                    IF merged[k].was_merged THEN "kept (merged)" ELSE "kept",
                    merged[k].parts)]

filter_and_merge_sections(secs, mw, mwm, twm, dry) ==
    IF dry THEN DryRunChapters(secs, Len(secs), mw)
    ELSE Converted(MergePass(Filtered(secs, Len(secs), mw, dry), NoBuf,
                             <<>>, mwm, twm))

FilterInit ==
    /\ f_pc = "start"
    /\ \E n \in 0..MaxSections :
          \E shape \in [1..n -> Titles \X (0..MaxWords)] :
              sections = SectionList(shape)
    /\ min_words \in 1..MaxWords
    /\ min_words_merge \in 1..MaxWords
    /\ target_words_merge \in 1..MaxWords
    /\ dry_run \in BOOLEAN
    /\ chapters = <<>>
    /\ BookInit
    /\ HashIdle
    /\ ChunkIdle
    /\ SumIdle
    /\ BatchIdle
    /\ AdapterIdle
    /\ ExtraIdle

FilterAndMerge ==
    /\ f_pc = "start"
    /\ chapters' = filter_and_merge_sections(sections, min_words,
                       min_words_merge, target_words_merge, dry_run)
    /\ f_pc' = "returned"
    /\ UNCHANGED <<sections, min_words, min_words_merge, target_words_merge,
                   dry_run, filterRest>>

FilterNext == FilterAndMerge
SpecFilter == FilterInit /\ [][FilterNext]_vars

(***************************************************************************)
(* SpecSample: split_text_into_chunks(text, chunk_size, sampling_ratio)    *)
(* of riassuntiveloci.py.  The text is its words, each given by its        *)
(* length, joined by single spaces; a chunk is the sequence of the         *)
(* positions of its words.  A ratio is a fraction, so that the products    *)
(* and quotients of the code are exact.                                    *)
(***************************************************************************)
WordLens == {1, MIN_CHUNK_LEN + 1}
ChunkSizes == {10, 15}
Ratios == {r \in (0..MaxDen) \X (1..MaxDen) : r[1] <= r[2]}

RECURSIVE SumLens(_, _)
SumLens(ws, poss) ==
    IF poss = <<>> THEN 0 ELSE ws[Head(poss)] + SumLens(ws, Tail(poss))

\* len(' '.join(...)) of the words at the given positions
JoinedLen(ws, poss) ==
    IF poss = <<>> THEN 0 ELSE SumLens(ws, poss) + (Len(poss) - 1)

Positions(a, b) == [k \in 1..(b - a + 1) |-> a + k - 1]

\* line 377
words_per_chunk(size) == size \div 5

\* line 380: words[i:i + words_per_chunk] for the k-th value of i (from 0)
SequentialChunk(ws, size, k) ==
    Positions(k * words_per_chunk(size) + 1,
              Min((k + 1) * words_per_chunk(size), Len(ws)))

\* line 381
IsSignificant(ws, chunk) == JoinedLen(ws, chunk) > MIN_CHUNK_LEN

\* lines 379-382
all_chunks(ws, size) ==
    LET count == (Len(ws) + words_per_chunk(size) - 1)
                     \div words_per_chunk(size)
    IN SelectSeq([k \in 1..count |-> SequentialChunk(ws, size, k - 1)],
                 LAMBDA chunk : IsSignificant(ws, chunk))

\* line 392: max(2, int(total_chunks * sampling_ratio))
num_chunks_to_keep(total_chunks, ratio) ==
    Max(2, (total_chunks * ratio[1]) \div ratio[2])

\* lines 405-412: the index (from 0) of the i-th chunk of the middle,
\* int(1 + i * step) with step = (total_chunks - 2) / (num_middle + 1)
MiddleIndex(total_chunks, num_middle, k) ==
    1 + (k * (total_chunks - 2)) \div (num_middle + 1)

RECURSIVE MiddleChunks(_, _, _)
MiddleChunks(all, num_middle, k) ==
    IF k = 0 THEN <<>>
    ELSE LET idx == MiddleIndex(Len(all), num_middle, k)
         IN MiddleChunks(all, num_middle, k - 1) \o
                (IF idx < Len(all) - 1 THEN <<all[idx + 1]>> ELSE <<>>)

\* lines 370-417
split_text_into_chunks(ws, size, ratio) ==
    LET all == all_chunks(ws, size)
        keep == num_chunks_to_keep(Len(all), ratio)
    IN IF JoinedLen(ws, Positions(1, Len(ws))) <= size
       THEN <<Positions(1, Len(ws))>>
       ELSE IF ratio[1] >= ratio[2] THEN all
       ELSE IF keep >= Len(all) THEN all
       ELSE <<all[1]>> \o
            (IF keep > 2 THEN MiddleChunks(all, keep - 2, keep - 2)
                         ELSE <<>>) \o
            <<all[Len(all)]>>

SampleInit ==
    /\ p_pc = "start"
    /\ \E n \in 0..MaxSampleWords : words \in [1..n -> WordLens]
    /\ chunk_size \in ChunkSizes
    /\ sampling_ratio \in Ratios
    /\ selected_chunks = <<>>
    /\ BookInit
    /\ HashIdle
    /\ ChunkIdle
    /\ SumIdle
    /\ BatchIdle
    /\ AdapterIdle
    /\ FilterIdle
    /\ VeloceIdle
    /\ StateIdle
    /\ NamesIdle
    /\ PosIdle

SplitTextIntoChunks ==
    /\ p_pc = "start"
    /\ selected_chunks' =
           split_text_into_chunks(words, chunk_size, sampling_ratio)
    /\ p_pc' = "returned"
    /\ UNCHANGED <<words, chunk_size, sampling_ratio, sampleRest>>

SampleNext == SplitTextIntoChunks
SpecSample == SampleInit /\ [][SampleNext]_vars

(***************************************************************************)
(* SpecFast: process_book_fast on one document, then runs of               *)
(* retry_failed_chunks on the failed-chunks file it left                   *)
(* (riassuntiveloci.py).  The text of the chunk at position idx is made    *)
(* of the idx-th letter.  call_ollama_fast is taken by its result: a text  *)
(* with no error, or no text with the error information of SpecAdapter.    *)
(***************************************************************************)
ChunkTextOf(idx) == <<Letters[idx], Letters[idx]>>

\* PROMPT_FAST.format(text=chunk), PROMPT_GLOBAL_FAST.format(summaries=...)
PROMPT_FAST(chunk) == <<"PROMPT_FAST">> \o chunk
PROMPT_GLOBAL_FAST(summaries) == <<"PROMPT_GLOBAL_FAST">> \o summaries

\* the results call_ollama_fast(prompt, model, max_retries) can return
FastReplies(prompt, retries_allowed) ==
    {[text |-> Summarize(prompt), error |-> NoError],
     [text |-> None, error |-> ErrorInfo("timeout", retries_allowed - 1)],
     [text |-> None, error |-> ErrorInfo("http_error", 0)]}

Call(prompt, retries_allowed) ==
    [prompt |-> prompt, max_retries |-> retries_allowed]

\* lines 521-527 with a preview of the chunk in place of the chunk
FailedEntryPreview(idx, total, error, chunk) ==
    [index |-> idx, total_chunks |-> total, error |-> error,
     chunk_text |-> SubSeq(chunk, 1, 1), chunk_size |-> Len(chunk),
     retry_error |-> NoError]

\* lines 521-527: the entry of failed_chunks for a chunk
FailedEntry(idx, total, error, chunk) ==
    [index |-> idx, total_chunks |-> total, error |-> error,
     chunk_text |-> chunk, chunk_size |-> Len(chunk),
     retry_error |-> NoError]

SummaryTexts(summaries) == [k \in DOMAIN summaries |-> summaries[k].summary]

FastInit ==
    /\ v_pc = "start"
    /\ v_fn = "process_book_fast"
    /\ \E n \in 0..MaxFastChunks : text_chunks = [k \in 1..n |-> ChunkTextOf(k)]
    /\ v_idx = 1
    /\ chunk_summaries = <<>>
    /\ failed_chunks = <<>>
    /\ v_global = <<>>
    /\ v_result = FALSE
    /\ v_calls = <<>>
    /\ failedFile = NoFile
    /\ outputFile = NoOutput
    /\ recoveredFile = NoFile
    /\ v_io = FALSE
    /\ retries = 0
    /\ recovered_summaries = <<>>
    /\ still_failed = <<>>
    /\ v_before = NoOutput
    /\ BookInit
    /\ HashIdle
    /\ ChunkIdle
    /\ SumIdle
    /\ BatchIdle
    /\ AdapterIdle
    /\ FilterIdle
    /\ SampleIdle
    /\ StateIdle
    /\ NamesIdle
    /\ PosIdle

\* lines 453-463: the extraction, and the return when it gives no text
FastExtract(enough) ==
    /\ v_pc = "start"
    /\ IF enough
       THEN v_pc' = "chunks" /\ UNCHANGED v_result
       ELSE v_pc' = "returned" /\ v_result' = FALSE
    /\ UNCHANGED <<v_fn, text_chunks, v_idx, chunk_summaries, failed_chunks,
                   v_global, v_calls, failedFile, outputFile, recoveredFile,
                   v_io, retries, recovered_summaries, still_failed,
                   v_before, veloceRest>>

\* lines 493-527: one iteration of the loop over text_chunks
FastChunk ==
    /\ v_pc = "chunks"
    /\ v_idx <= Len(text_chunks)
    /\ LET chunk == text_chunks[v_idx]
           prompt == PROMPT_FAST(chunk)
       IN /\ v_calls' = Append(v_calls, Call(prompt, 3))
          /\ \E reply \in FastReplies(prompt, 3) :
                IF Truthy(reply.text)
                THEN /\ chunk_summaries' =
                            Append(chunk_summaries,
                                   [index |-> v_idx, summary |-> reply.text])
                     /\ UNCHANGED failed_chunks
                ELSE /\ failed_chunks' =
                            Append(failed_chunks,
                                   FailedEntry(v_idx, Len(text_chunks),
                                               reply.error, chunk))
                     /\ UNCHANGED chunk_summaries
    /\ v_idx' = v_idx + 1
    /\ UNCHANGED <<v_pc, v_fn, text_chunks, v_global, v_result, failedFile,
                   outputFile, recoveredFile, v_io, retries,
                   recovered_summaries, still_failed, v_before, veloceRest>>

\* lines 533-535: no summary at all
FastNoSummary ==
    /\ v_pc = "chunks"
    /\ v_idx > Len(text_chunks)
    /\ chunk_summaries = <<>>
    /\ v_result' = FALSE
    /\ v_pc' = "returned"
    /\ UNCHANGED <<v_fn, text_chunks, v_idx, chunk_summaries, failed_chunks,
                   v_global, v_calls, failedFile, outputFile, recoveredFile,
                   v_io, retries, recovered_summaries, still_failed,
                   v_before, veloceRest>>

\* save_failed_chunks_state (lines 197-224): json.dump of the list, or an
\* exception caught and the file as it was
save_failed_chunks_state(list, ok) ==
    /\ failedFile' = IF ok THEN File(list) ELSE failedFile
    /\ v_io' = (v_io \/ ~ok)

\* lines 537-548: the summary of the run and the failed-chunks file
FastSaveFailed(ok) ==
    /\ v_pc = "chunks"
    /\ v_idx > Len(text_chunks)
    /\ chunk_summaries # <<>>
    /\ IF failed_chunks # <<>>
       THEN save_failed_chunks_state(failed_chunks, ok)
       ELSE ok /\ UNCHANGED <<failedFile, v_io>>
    /\ v_pc' = "global"
    /\ UNCHANGED <<v_fn, text_chunks, v_idx, chunk_summaries, failed_chunks,
                   v_global, v_result, v_calls, outputFile, recoveredFile,
                   retries, recovered_summaries, still_failed, v_before,
                   veloceRest>>

\* lines 552-566: the global summary, or the partial ones in its place
FastGlobal ==
    /\ v_pc = "global"
    /\ LET combined_summaries == Join(SummaryTexts(chunk_summaries))
           global_prompt == PROMPT_GLOBAL_FAST(combined_summaries)
       IN /\ v_calls' = Append(v_calls, Call(global_prompt, 3))
          /\ \E reply \in FastReplies(global_prompt, 3) :
                v_global' = IF Truthy(reply.text) THEN reply.text
                            ELSE combined_summaries
    /\ v_pc' = "write"
    /\ UNCHANGED <<v_fn, text_chunks, v_idx, chunk_summaries, failed_chunks,
                   v_result, failedFile, outputFile, recoveredFile, v_io,
                   retries, recovered_summaries, still_failed, v_before,
                   veloceRest>>

\* lines 568-611: <title>.veloce.md
FastWrite(ok) ==
    /\ v_pc = "write"
    /\ outputFile' = IF ok
                     THEN File([global |-> v_global,
                                extracts |-> chunk_summaries])
                     ELSE outputFile
    /\ v_io' = (v_io \/ ~ok)
    /\ v_result' = ok
    /\ v_pc' = "returned"
    /\ UNCHANGED <<v_fn, text_chunks, v_idx, chunk_summaries, failed_chunks,
                   v_global, v_calls, failedFile, recoveredFile, retries,
                   recovered_summaries, still_failed, v_before, veloceRest>>

\* retry_failed_chunks, lines 634-655: the state is loaded
RetryLoad ==
    /\ v_pc = "returned"
    /\ retries < MaxRetryRuns
    /\ retries' = retries + 1
    /\ v_fn' = "retry_failed_chunks"
    /\ v_calls' = <<>>
    /\ v_io' = FALSE
    /\ v_before' = outputFile
    /\ recovered_summaries' = <<>>
    /\ still_failed' = <<>>
    /\ v_idx' = 1
    /\ IF ~failedFile.exists
       THEN /\ v_result' = FALSE
            /\ v_pc' = "returned"
            /\ UNCHANGED failed_chunks
       ELSE /\ failed_chunks' = failedFile.content
            /\ IF failedFile.content = <<>>
               THEN v_result' = TRUE /\ v_pc' = "returned"
               ELSE v_pc' = "retry" /\ UNCHANGED v_result
    /\ UNCHANGED <<text_chunks, chunk_summaries, v_global, failedFile,
                   outputFile, recoveredFile, veloceRest>>

\* line 668: the prompt of a retry
RetryPrompt(fc) == PROMPT_FAST(fc.chunk_text)

\* lines 657-685: one iteration of the loop over the failed chunks
RetryChunk ==
    /\ v_pc = "retry"
    /\ v_idx <= Len(failed_chunks)
    /\ LET fc == failed_chunks[v_idx]
       IN IF fc.chunk_text = <<>>
          THEN /\ still_failed' = Append(still_failed, fc)
               /\ UNCHANGED <<recovered_summaries, v_calls>>
          ELSE /\ v_calls' = Append(v_calls, Call(RetryPrompt(fc), 4))
               /\ \E reply \in FastReplies(RetryPrompt(fc), 4) :
                     IF Truthy(reply.text)
                     THEN /\ recovered_summaries' =
                                 Append(recovered_summaries,
                                        [index |-> fc.index,
                                         summary |-> reply.text])
                          /\ UNCHANGED still_failed
                     ELSE /\ still_failed' =
                                 Append(still_failed,
                                        [fc EXCEPT !.retry_error =
                                                       reply.error])
                          /\ UNCHANGED recovered_summaries
    /\ v_idx' = v_idx + 1
    /\ UNCHANGED <<v_pc, v_fn, text_chunks, chunk_summaries, failed_chunks,
                   v_global, v_result, failedFile, outputFile, recoveredFile,
                   v_io, retries, v_before, veloceRest>>

\* lines 687-737: the state file is rewritten or removed, the recovered
\* summaries are written to <title>.recovered_chunks.md
RetryFinish(state_ok, write_ok) ==
    /\ v_pc = "retry"
    /\ v_idx > Len(failed_chunks)
    /\ failedFile' =
           IF still_failed # <<>>
           THEN IF Len(still_failed) < Len(failed_chunks) /\ state_ok
                THEN File(still_failed) ELSE failedFile
           ELSE IF state_ok THEN NoFile ELSE failedFile
    /\ recoveredFile' =
           IF recovered_summaries # <<>> /\ write_ok
           THEN File(recovered_summaries) ELSE recoveredFile
    /\ v_io' = (~state_ok \/ ~write_ok)
    /\ v_result' = (Len(recovered_summaries) > 0)
    /\ v_pc' = "returned"
    /\ UNCHANGED <<v_fn, text_chunks, v_idx, chunk_summaries, failed_chunks,
                   v_global, v_calls, outputFile, retries,
                   recovered_summaries, still_failed, v_before, veloceRest>>

FastNext ==
    \/ \E enough \in BOOLEAN : FastExtract(enough)
    \/ FastChunk
    \/ FastNoSummary
    \/ \E ok \in BOOLEAN : FastSaveFailed(ok)
    \/ FastGlobal
    \/ \E ok \in BOOLEAN : FastWrite(ok)
    \/ RetryLoad
    \/ RetryChunk
    \/ \E state_ok, write_ok \in BOOLEAN : RetryFinish(state_ok, write_ok)

SpecFast == FastInit /\ [][FastNext]_vars

(***************************************************************************)
(* SpecState: save_resume_state(state, state_path) followed by            *)
(* load_resume_state(state_path), on a ResumeState of any content.         *)
(***************************************************************************)
StateIndices == {1, 2, MaxStateIndex}
StateHashes == {compute_hash(<<"a">>), compute_hash(<<"b">>)}

\* a list of indices without repetition, as process_book builds completed
IsCompletedList(seq) ==
    \A j, k \in DOMAIN seq : j # k => seq[j] # seq[k]

StateInit ==
    /\ ck_pc = "start"
    /\ \E n \in 0..Cardinality(StateIndices) :
          \E completed \in [1..n -> StateIndices] :
              /\ IsCompletedList(completed)
              /\ \E keys \in SUBSET StateIndices :
                    \E hashes \in [keys -> StateHashes] :
                        \E total \in {0, MaxStateIndex} :
                            \E model \in Models :
                                ck_state = [completed |-> completed,
                                            chapter_hashes |-> hashes,
                                            total_chapters |-> total,
                                            model |-> model]
    /\ ck_file = AbsentFile
    /\ ck_loaded = load_resume_state(AbsentFile)
    /\ BookInit
    /\ HashIdle
    /\ ChunkIdle
    /\ SumIdle
    /\ BatchIdle
    /\ AdapterIdle
    /\ FilterIdle
    /\ SampleIdle
    /\ VeloceIdle
    /\ NamesIdle
    /\ PosIdle

\* save_resume_state (lines 543-549): the file is written; or open raises
\* and the file is as it was; or json.dump raises and the file is left
\* unfinished; the exception is printed and swallowed
SaveResumeState(outcome) ==
    /\ ck_pc = "start"
    /\ ck_file' = CASE outcome = "written" -> JsonFile(ck_state)
                    [] outcome = "open raised" -> ck_file
                    [] OTHER -> CorruptFile
    /\ ck_pc' = "saved"
    /\ UNCHANGED <<ck_state, ck_loaded, stateRest>>

\* load_resume_state (lines 529-540)
LoadResumeState ==
    /\ ck_pc = "saved"
    /\ ck_loaded' = load_resume_state(ck_file)
    /\ ck_pc' = "loaded"
    /\ UNCHANGED <<ck_state, ck_file, stateRest>>

StateNext ==
    \/ \E outcome \in {"written", "open raised", "dump raised"} :
          SaveResumeState(outcome)
    \/ LoadResumeState

SpecState == StateInit /\ [][StateNext]_vars

(***************************************************************************)
(* SpecNames: process_book writes one file per summarised unit under the   *)
(* name f"{idx:02d}_{safe_title}_{text_hash}.md" (lines 1050-1057) and     *)
(* scan_existing_chapters reads the directory back (lines 552-577).        *)
(* A file name is the sequence of its characters.                          *)
(***************************************************************************)
HexChars == <<"0", "1", "2", "3", "4", "5", "6", "7", "8", "9",
              "a", "b", "c", "d", "e", "f">>
TitleChars == {"a", "\n", "<", "/"}
Whitespace == {" ", "\n", "\t"}
Forbidden == {"<", ">", ":", "\"", "/", "\\", "|", "?", "*"}

IsDigit(c) == \E d \in 1..10 : HexChars[d] = c
IsHex(c) == \E d \in 1..16 : HexChars[d] = c
CharValue(c) == CHOOSE d \in 0..15 : HexChars[d + 1] = c

TitlesUpTo(n) == UNION {[1..k -> TitleChars] : k \in 0..n}

\* Path(filename).stem of a text without dots: its last component
RECURSIVE PathStem(_)
PathStem(t) ==
    IF t = <<>> THEN <<>>
    ELSE IF t[Len(t)] = "/" THEN PathStem(SubSeq(t, 1, Len(t) - 1))
    ELSE IF \E k \in DOMAIN t : t[k] = "/"
         THEN LET last == CHOOSE k \in DOMAIN t :
                              /\ t[k] = "/"
                              /\ \A j \in (k + 1)..Len(t) : t[j] # "/"
              IN SubSeq(t, last + 1, Len(t))
         ELSE t

\* re.sub(r'[<>:"/\\|?*]', '_', name)
ReplaceForbidden(t) ==
    [k \in DOMAIN t |-> IF t[k] \in Forbidden THEN "_" ELSE t[k]]

RECURSIVE StripText(_)
\* str.strip()
StripText(t) ==
    IF t = <<>> THEN <<>>
    ELSE IF t[1] \in Whitespace THEN StripText(Tail(t))
    ELSE IF t[Len(t)] \in Whitespace
         THEN StripText(SubSeq(t, 1, Len(t) - 1))
    ELSE t

sanitize_filename(filename) ==
    StripText(ReplaceForbidden(PathStem(filename)))

\* f"{idx:02d}"
FormatIndex(idx) ==
    LET ds == IF idx < 10 THEN <<0, idx>> ELSE json_key(idx)
    IN [k \in DOMAIN ds |-> HexChars[ds[k] + 1]]

\* the digest as hexdigest() prints it
HexText(h) == [k \in DOMAIN h |-> HexChars[h[k] + 1]]

FileNameText(idx, title, hash) ==
    FormatIndex(idx) \o <<"_">> \o sanitize_filename(title) \o <<"_">>
        \o HexText(hash) \o <<".", "m", "d">>

\* the length of the run of digits a name starts with
DigitRun(name) ==
    CHOOSE run \in 0..Len(name) :
        /\ \A k \in 1..run : IsDigit(name[k])
        /\ run < Len(name) => ~IsDigit(name[run + 1])

\* pattern.match(filename) for r'^(\d+)_.*_([a-f0-9]{8})\.md$': the digits,
\* an underscore, any characters but a newline, an underscore, HASH_LEN
\* hexadecimal digits and ".md" at the end of the name
PatternMatch(name) ==
    LET len == Len(name)
        run == DigitRun(name)
        tail == HASH_LEN + 4
    IN /\ run >= 1
       /\ len >= run + 1 + tail
       /\ name[run + 1] = "_"
       /\ \A k \in (run + 2)..(len - tail) : name[k] # "\n"
       /\ name[len - tail + 1] = "_"
       /\ \A k \in (len - tail + 2)..(len - 3) : IsHex(name[k])
       /\ name[len - 2] = "."
       /\ name[len - 1] = "m"
       /\ name[len] = "d"

\* int(match.group(1))
MatchIndex(name) ==
    int_key([k \in 1..DigitRun(name) |-> CharValue(name[k])])

\* match.group(2)
MatchHash(name) ==
    [k \in 1..HASH_LEN |-> CharValue(name[Len(name) - 3 - HASH_LEN + k])]

\* scan_existing_chapters on a directory whose files have distinct indices
scan_existing_chapters(dir) ==
    LET matched == {name \in dir : PatternMatch(name)}
        found == {MatchIndex(name) : name \in matched}
    IN [idx \in found |->
           MatchHash(CHOOSE name \in matched : MatchIndex(name) = idx)]

NamesInit ==
    /\ n_pc = "write"
    /\ \E n \in 1..2 :
          \E indices \in [1..n -> StateIndices] :
              /\ \A j, k \in 1..n : j < k => indices[j] < indices[k]
              /\ \E titles \in [1..n -> TitlesUpTo(MaxTitleLen)] :
                    \E hashes \in [1..n -> StateHashes] :
                        n_units = [k \in 1..n |->
                                      [idx |-> indices[k],
                                       title |-> titles[k],
                                       hash |-> hashes[k]]]
    /\ n_written = 0
    /\ n_dir = {}
    /\ n_existing = <<>>
    /\ BookInit
    /\ HashIdle
    /\ ChunkIdle
    /\ SumIdle
    /\ BatchIdle
    /\ AdapterIdle
    /\ FilterIdle
    /\ SampleIdle
    /\ VeloceIdle
    /\ StateIdle
    /\ PosIdle

\* lines 1050-1057: the unit's file is written, or open raises and the
\* except clause of line 1065 goes on to the next unit
WriteChapter(ok) ==
    /\ n_pc = "write"
    /\ n_written < Len(n_units)
    /\ LET unit == n_units[n_written + 1]
       IN n_dir' = IF ok
                   THEN n_dir \cup
                        {FileNameText(unit.idx, unit.title, unit.hash)}
                   ELSE n_dir
    /\ n_written' = n_written + 1
    /\ UNCHANGED <<n_pc, n_units, n_existing, namesRest>>

\* a later run finds no usable state.json and scans the directory
ScanExistingChapters ==
    /\ n_pc = "write"
    /\ n_written = Len(n_units)
    /\ n_existing' = scan_existing_chapters(n_dir)
    /\ n_pc' = "scanned"
    /\ UNCHANGED <<n_units, n_written, n_dir, namesRest>>

NamesNext ==
    \/ \E ok \in BOOLEAN : WriteChapter(ok)
    \/ ScanExistingChapters

SpecNames == NamesInit /\ [][NamesNext]_vars

(***************************************************************************)
(* riassumi.py: process_book with the checkpoint that records the list of  *)
(* chapter summaries (specification SpecPositional).  A chapter stands for *)
(* its title, so an entry of chapter_summaries is the chapter's number.    *)
(***************************************************************************)
\* model, min_words and chunk_size of a run, compared at lines 803-805
Configs == {"m1", "m2"}

\* lines 654-687: the file is rewritten, or the exception is swallowed
save_checkpoint(file, summaries, current_index, total, config, ok) ==
    IF ok
    THEN [exists |-> TRUE, config |-> config, total_chapters |-> total,
          current_index |-> current_index, chapter_summaries |-> summaries]
    ELSE file

\* lines 690-710: the stored dictionary, or None when there is no file
load_checkpoint(file) == IF file.exists THEN file ELSE NoCheckpoint

\* lines 714-727: the file is removed, or the exception is swallowed
remove_checkpoint(file, ok) == IF file.exists /\ ok THEN NoCheckpoint ELSE file

PosInit ==
    /\ k_pc = "stopped"
    /\ k_config = ""
    /\ k_chapters = 0
    /\ k_idx = 0
    /\ k_resumed = FALSE
    /\ k_start = 0
    /\ k_summaries = <<>>
    /\ k_file = NoCheckpoint
    /\ k_loaded = <<>>
    /\ k_processed = {}
    /\ k_runs = 0
    /\ BookInit
    /\ HashIdle
    /\ ChunkIdle
    /\ SumIdle
    /\ BatchIdle
    /\ AdapterIdle
    /\ FilterIdle
    /\ SampleIdle
    /\ VeloceIdle
    /\ StateIdle
    /\ NamesIdle

\* lines 796-849: the checkpoint is loaded and accepted or removed, the
\* chapters are extracted (n of them) and the loop is entered
PosStart(config, n, answer, removed) ==
    /\ k_pc \in {"stopped", "done", "failed"}
    /\ k_runs < MaxPosRuns
    /\ LET checkpoint == load_checkpoint(k_file)
           accepted == /\ checkpoint.exists
                       /\ checkpoint.config = config
                       /\ answer
           resume == IF n = 0 THEN accepted
                     ELSE accepted /\ checkpoint.total_chapters = n
       IN /\ k_resumed' = resume
          /\ k_summaries' = (IF resume THEN checkpoint.chapter_summaries
                             ELSE <<>>)
          /\ k_start' = (IF resume THEN Len(checkpoint.chapter_summaries)
                         ELSE 0)
          /\ k_loaded' = (IF resume THEN checkpoint.chapter_summaries
                          ELSE <<>>)
          /\ k_file' = (IF checkpoint.exists /\ ~resume
                        THEN remove_checkpoint(k_file, removed)
                        ELSE k_file)
    /\ k_config' = config
    /\ k_chapters' = n
    /\ k_idx' = 1
    /\ k_processed' = {}
    /\ k_runs' = k_runs + 1
    /\ k_pc' = (IF n = 0 THEN "failed" ELSE "loop")
    /\ UNCHANGED posRest

\* lines 854-857: idx <= start_index, continue
PosSkip ==
    /\ k_pc = "loop"
    /\ k_idx <= k_chapters
    /\ k_idx <= k_start
    /\ k_idx' = k_idx + 1
    /\ UNCHANGED <<k_pc, k_config, k_chapters, k_resumed, k_start,
                   k_summaries, k_file, k_loaded, k_processed, k_runs,
                   posRest>>

\* lines 859-875: the chapter is summarized; a summary is appended and the
\* checkpoint saved, a failed chapter is passed over
PosSummarize(ok, saved) ==
    /\ k_pc = "loop"
    /\ k_idx <= k_chapters
    /\ k_idx > k_start
    /\ k_processed' = k_processed \cup {k_idx}
    /\ IF ok
       THEN /\ k_summaries' = Append(k_summaries, k_idx)
            /\ k_file' = save_checkpoint(k_file, Append(k_summaries, k_idx),
                                         k_idx, k_chapters, k_config, saved)
       ELSE UNCHANGED <<k_summaries, k_file>>
    /\ k_idx' = k_idx + 1
    /\ UNCHANGED <<k_pc, k_config, k_chapters, k_resumed, k_start, k_loaded,
                   k_runs, posRest>>

\* lines 877-916: after the loop; no summary at all removes the checkpoint
\* and fails, otherwise the output is written and a written output
\* removes the checkpoint
PosFinish(written, removed) ==
    /\ k_pc = "loop"
    /\ k_idx > k_chapters
    /\ IF k_summaries = <<>>
       THEN /\ k_file' = remove_checkpoint(k_file, removed)
            /\ k_pc' = "failed"
       ELSE /\ k_file' = (IF written THEN remove_checkpoint(k_file, removed)
                          ELSE k_file)
            /\ k_pc' = (IF written THEN "done" ELSE "failed")
    /\ UNCHANGED <<k_config, k_chapters, k_idx, k_resumed, k_start,
                   k_summaries, k_loaded, k_processed, k_runs, posRest>>

\* the process is stopped while it is in the loop
PosInterrupt ==
    /\ k_pc = "loop"
    /\ k_pc' = "stopped"
    /\ UNCHANGED <<k_config, k_chapters, k_idx, k_resumed, k_start,
                   k_summaries, k_file, k_loaded, k_processed, k_runs,
                   posRest>>

PosNext ==
    \/ \E config \in Configs, n \in 0..MaxChapters, answer \in BOOLEAN,
          removed \in BOOLEAN : PosStart(config, n, answer, removed)
    \/ PosSkip
    \/ \E ok \in BOOLEAN, saved \in BOOLEAN : PosSummarize(ok, saved)
    \/ \E written \in BOOLEAN, removed \in BOOLEAN :
          PosFinish(written, removed)
    \/ PosInterrupt

SpecPositional == PosInit /\ [][PosNext]_vars

(***************************************************************************)
(* Claims about process_book (specification Spec).                         *)
(***************************************************************************)
AllUnits(doc) == 1..Len(doc)

\* the previous run ended normally, with every unit summarized by it,
\* written to its file and checkpointed
PrevSummarizedAll ==
    /\ prev.outcome = "done"
    /\ prev.persisted = AllUnits(prev.kept)
    /\ ~prev.ioFailed

\* nothing was deleted between the previous run and this one
Undisturbed == ~prev.stateLost /\ ~prev.fileLost

\* C1: resume correctness - after a complete run that summarized and
\* persisted every unit, a second run with the same units and model makes
\* no call_ollama call at all and ends with the same (title, summary)
\* records as the first run.
C1_ResumeCorrectness ==
    (/\ pc = "done"
     /\ PrevSummarizedAll
     /\ Undisturbed
     /\ faults = 0
     /\ kept = prev.kept
     /\ args_model = prev.model)
    => /\ summarized = {}
       /\ ~globalCalled
       /\ chapter_summaries = prev.summaries

\* C2: checkpoint loss is self-healing - in a run that found no readable
\* state.json, a unit whose artifact file (index, current hash) is in the
\* chapters directory, holding a summary, is skipped and never given to
\* summarize_chapter.
\* (pc = "open" is the point right after summarize_chapter returned a
\* summary for unit i, before its file is opened.)
C2_CheckpointLossSelfHealing ==
    (pc = "open" /\ ~state_found)
    => \A f \in MatchingFiles(chaptersDir, i, compute_hash(kept[i])) :
          chaptersDir[f] = NoSummary

\* C3: a unit is skipped only if its index is in completed, the stored hash
\* of that index equals the unit's fresh hash, and a file carrying that
\* index and hash is in the chapters directory; if one of the three fails
\* the unit is given to summarize_chapter.
C3_Conditions ==
    /\ \E k \in DOMAIN resume_state.completed : resume_state.completed[k] = i
    /\ i \in DOMAIN resume_state.chapter_hashes
    /\ resume_state.chapter_hashes[i] = compute_hash(kept[i])
    /\ \E f \in DOMAIN chaptersDir :
          f.idx = i /\ f.hash = compute_hash(kept[i])

C3_SkipOnlyIfAllThree ==
    [][(InLoop /\ ~C3_Conditions /\ pc' # "crashed")
          => (i \notin skipped' /\ i \in summarized')]_vars

\* C3 witness: in one run a unit was skipped and a unit that the checkpoint
\* lists as completed was summarized again (its file was deleted)
C3_Witness ==
    /\ Running
    /\ prev.fileLost
    /\ skipped # {}
    /\ \E idx \in summarized : InCompleted(resume_state, idx) /\ idx < i

\* C4: saving the checkpoint is atomic - when the process is killed, the
\* state.json on disk is a complete state (the previous or the new one),
\* never an empty or half-written file.
C4_AtomicSave ==
    pc = "crashed" => stateFile.kind # "corrupt"

\* C5: an interruption loses at most the unit in flight - on the run after
\* an interrupted run, with the same units and model, no unit that the
\* interrupted run had skipped or had written and checkpointed is given to
\* summarize_chapter.
C5_InterruptionLosesOneUnit ==
    (/\ prev.outcome = "crashed"
     /\ Undisturbed
     /\ ~prev.ioFailed
     /\ ~ioFailed
     /\ pc # "idle"
     /\ kept = prev.kept
     /\ args_model = prev.model)
    => summarized \cap (prev.skipped \cup prev.persisted) = {}

\* C6: a summary is reused only under the model that produced it - in a
\* behaviour without failures or interruptions, every summary a run loads
\* for a skipped unit was produced by the model of that run.
C6_ReuseOnlySameModel ==
    faults = 0 =>
        \A k \in DOMAIN chapter_summaries :
            (\E idx \in skipped : chapter_summaries[k].title = Title(idx))
            => chapter_summaries[k].summary.model = args_model

\* C7: model-change invalidation - when the previous run summarized every
\* unit under its model and this run has a different model, no unit is
\* skipped.
C7_ModelChangeInvalidates ==
    (/\ PrevSummarizedAll
     /\ Undisturbed
     /\ faults = 0
     /\ pc # "idle"
     /\ kept = prev.kept
     /\ args_model # prev.model)
    => skipped = {}

\* the units whose text differs between the previous run and this one
ChangedUnits == {idx \in AllUnits(kept) : kept[idx] # prev.kept[idx]}

\* C8: partial-change resume - after a completed run, when the text of
\* exactly one unit changed and the model is the same, the rerun
\* summarizes exactly that unit and skips every other unit, loading the
\* summary the previous run had for it.
C8_PartialChangeResume ==
    (/\ pc = "done"
     /\ prev.outcome = "done"
     /\ prev.skipped \cup prev.persisted = AllUnits(prev.kept)
     /\ ~prev.ioFailed
     /\ Undisturbed
     /\ faults = 0
     /\ args_model = prev.model
     /\ Len(kept) = Len(prev.kept)
     /\ Cardinality(ChangedUnits) = 1)
    => /\ summarized = ChangedUnits
       /\ skipped = AllUnits(kept) \ ChangedUnits
       /\ \A idx \in skipped :
             chapter_summaries[idx] = prev.summaries[idx]


(***************************************************************************)
(* Claims about compute_hash (specification SpecHash).                     *)
(***************************************************************************)
\* the first PrefixLen characters of a text
Prefix(text) == SubSeq(text, 1, Min(Len(text), PrefixLen))

\* C9: the fingerprint has HASH_LEN characters and depends only on the
\* first PrefixLen characters of the text - texts with the same prefix have
\* equal fingerprints, texts with different prefixes have different
\* fingerprints, and equal texts have equal fingerprints.
C9_PrefixFingerprint ==
    h_pc = "hashed" =>
        /\ Len(h_hash1) = HASH_LEN
        /\ (Prefix(h_text1) = Prefix(h_text2)) => (h_hash1 = h_hash2)
        /\ (Prefix(h_text1) # Prefix(h_text2)) => (h_hash1 # h_hash2)
        /\ (h_text1 = h_text2) => (h_hash1 = h_hash2)

\* the digest of the model separates the texts of the model (no collision
\* within the bounds)
HashSeparatesTexts ==
    h_pc = "hashed" => ((h_hash1 = h_hash2) <=> (h_text1 = h_text2))

(***************************************************************************)
(* Claims about chunk_text (specification SpecChunk).                      *)
(***************************************************************************)
\* pieces laid over the text: piece k lies at 0-based offset at[k]
LiesAt(text, piece, off) ==
    /\ off >= 0
    /\ off + Len(piece) <= Len(text)
    /\ SubSeq(text, off + 1, off + Len(piece)) = piece

\* C10 as stated: whenever chunk_text returns, no piece is empty and the
\* pieces, laid over the text from its first character with each piece
\* starting no later than where the one before ends, reconstruct the text.
C10_SegmenterTotality ==
    c_pc = "returned" =>
        /\ \A k \in DOMAIN c_chunks : c_chunks[k] # <<>>
        /\ \E at \in [DOMAIN c_chunks -> 0..Len(c_text)] :
              /\ \A k \in DOMAIN c_chunks : LiesAt(c_text, c_chunks[k], at[k])
              /\ at[1] = 0
              /\ \A k \in DOMAIN c_chunks :
                    IF k = Len(c_chunks)
                    THEN at[k] + Len(c_chunks[k]) = Len(c_text)
                    ELSE /\ at[k + 1] <= at[k] + Len(c_chunks[k])
                         /\ at[k + 1] + Len(c_chunks[k + 1])
                                >= at[k] + Len(c_chunks[k])

\* the characters of the text in the window <<start, end>>, by 0-based
\* position
WindowPositions(w) == {p \in w[1]..(Min(w[2], Len(c_text)) - 1) : p >= 0}

\* piece is the window w of the text without the whitespace at its two ends
StrippedWindow(piece, w) ==
    \E lo \in w[1]..Min(w[2], Len(c_text)) :
        /\ LiesAt(c_text, piece, lo)
        /\ lo + Len(piece) <= Min(w[2], Len(c_text))
        /\ \A p \in WindowPositions(w) :
              (p < lo \/ p >= lo + Len(piece)) => IsSpace(c_text[p + 1])
        /\ piece # <<>> =>
              /\ ~IsSpace(piece[1])
              /\ ~IsSpace(piece[Len(piece)])

\* C10 (amended): whenever chunk_text returns, a text that fits in max_size
\* comes back as the single piece [text]; otherwise the windows the pieces
\* were cut from start at the first character, follow each other with no
\* gap and reach the end of the text, and each piece is its window without
\* the whitespace at the window's two ends - so only whitespace at piece
\* boundaries is lost and a piece is empty exactly when its window holds
\* nothing but whitespace.
C10_WindowsCoverInput ==
    c_pc = "returned" =>
        IF Len(c_text) <= c_max_size
        THEN c_chunks = <<c_text>>
        ELSE /\ Len(c_chunks) = Len(c_windows)
             /\ Len(c_windows) >= 1
             /\ c_windows[1][1] = 0
             /\ c_windows[Len(c_windows)][2] >= Len(c_text)
             /\ \A k \in 1..(Len(c_windows) - 1) :
                   /\ c_windows[k + 1][1] >= 0
                   /\ c_windows[k + 1][1] <= c_windows[k][2]
             /\ \A k \in DOMAIN c_chunks :
                   /\ StrippedWindow(c_chunks[k], c_windows[k])
                   /\ (c_chunks[k] = <<>>) <=>
                         (\A p \in WindowPositions(c_windows[k]) :
                              IsSpace(c_text[p + 1]))

\* chunk_text returned several pieces, one of them empty because its window
\* held only whitespace
C10_Witness ==
    /\ c_pc = "returned"
    /\ Len(c_chunks) >= 2
    /\ \E k \in DOMAIN c_chunks :
          /\ c_chunks[k] = <<>>
          /\ WindowPositions(c_windows[k]) # {}

\* C11: whenever len(text) <= max_size, chunk_text returns the one-element
\* list [text] with the text unmodified, whatever the overlap.
C11_ShortInputUnmodified ==
    (c_pc = "returned" /\ Len(c_text) <= c_max_size) =>
        /\ Len(c_chunks) = 1
        /\ c_chunks[1] = c_text

\* a short text with whitespace at an end came back with a positive overlap
C11_Witness ==
    /\ c_pc = "returned"
    /\ Len(c_text) <= c_max_size
    /\ c_text # <<>>
    /\ IsSpace(c_text[1])
    /\ c_overlap > 0
    /\ c_chunks = <<c_text>>

\* C12: for a text longer than max_size, chunk_text returns more than one
\* piece and every piece has at most max_size + overlap characters.
C12_PieceSizeBound ==
    /\ (c_pc \in {"while", "returned", "overflow"}) =>
          \A k \in DOMAIN c_chunks :
              Len(c_chunks[k]) <= c_max_size + c_overlap
    /\ (c_pc = "returned" /\ Len(c_text) > c_max_size) =>
          Len(c_chunks) > 1

\* a long text came back in several pieces, one of them of full size
C12_Witness ==
    /\ c_pc = "returned"
    /\ Len(c_text) > c_max_size
    /\ c_overlap > 0
    /\ Len(c_chunks) > 1
    /\ \E k \in DOMAIN c_chunks : Len(c_chunks[k]) = c_max_size

(***************************************************************************)
(* Claims about summarize_chapter (specification SpecSum).                 *)
(***************************************************************************)
MapCalls == {k \in DOMAIN s_calls : s_calls[k].kind = "map"}
ReduceCalls == {k \in DOMAIN s_calls : s_calls[k].kind = "reduce"}

\* C13: when summarize_chapter returns, a text of at most max_chars
\* characters (exactly max_chars included) was summarized by a single call
\* on the whole text with no chunking; a text of max_chars + 1 characters or
\* more was split by chunk_text into several chunks, each chunk got one MAP
\* call, in order, and one REDUCE call followed (none only when no MAP call
\* gave a summary).
C13_ThresholdBoundary ==
    s_pc = "returned" =>
        IF Len(s_text) <= s_max_chars
        THEN /\ s_calls = <<MapCall(s_text)>>
             /\ s_chunks = <<>>
        ELSE /\ Len(s_chunks) > 1
             /\ s_chunks = chunk_text(s_text, s_max_chars, s_overlap).chunks
             /\ Cardinality(MapCalls) = Len(s_chunks)
             /\ \A k \in DOMAIN s_chunks : s_calls[k] = MapCall(s_chunks[k])
             /\ Cardinality(ReduceCalls) = (IF s_partial = <<>> THEN 0 ELSE 1)
             /\ Len(s_partial) = Len(s_chunks) =>
                   s_calls[Len(s_calls)] = ReduceCall(Join(s_partial))

\* a text of exactly max_chars + 1 characters went through MAP-REDUCE with
\* every MAP call succeeding
C13_Witness ==
    /\ s_pc = "returned"
    /\ Len(s_text) = s_max_chars + 1
    /\ Len(s_partial) = Len(s_chunks)
    /\ Cardinality(ReduceCalls) = 1
    /\ Truthy(s_result)

Fast == a_fn = "call_ollama_fast"

\* the requests sent so far begin with two timeouts and a text
RetryScenario ==
    /\ Fast
    /\ max_retries = 3
    /\ Len(a_sent) >= 3
    /\ a_sent[1] = "timeout"
    /\ a_sent[2] = "timeout"
    /\ a_sent[3] = "text"

\* C15: with max_retries = 3, when the first two requests time out and the
\* third gives a text, call_ollama_fast has returned (text, no error) after
\* exactly three requests, having slept 1 s after the first and 2 s after
\* the second; and every sleep of call_ollama_fast after its k-th request
\* lasts 2^(k-1) seconds.
C15_RetryScenario ==
    /\ RetryScenario =>
          /\ a_pc = "returned"
          /\ a_text = SomeText
          /\ a_error = NoError
          /\ Len(a_sent) = 3
          /\ a_slept = <<[after |-> 1, wait |-> 1], [after |-> 2, wait |-> 2]>>
    /\ Fast =>
          \A k \in DOMAIN a_slept : a_slept[k].wait = 2 ^ (a_slept[k].after - 1)

\* the scenario of C15 happened
C15_Witness == RetryScenario /\ a_pc = "returned" /\ Len(a_slept) = 2

\* C16: an HTTP error is never retried - it is the last request sent, no
\* sleep follows it, and the call returns no text - for call_ollama_fast
\* and for call_ollama.
C16_HttpErrorNotRetried ==
    \A k \in DOMAIN a_sent :
        a_sent[k] = "http_error" =>
            /\ k = Len(a_sent)
            /\ \A j \in DOMAIN a_slept : a_slept[j].after # k
            /\ a_pc = "returned" => a_text = None

\* C17: an empty response is a failure that is retried - while attempts
\* remain another request follows it, and an empty text is never returned -
\* for call_ollama_fast and for call_ollama.
C17_EmptyResponseRetried ==
    a_pc = "returned" =>
        /\ a_text # EmptyText
        /\ \A k \in DOMAIN a_sent :
              a_sent[k] = "empty" => (k = max_retries \/ k < Len(a_sent))

\* C18: call_ollama_fast returns either a non-empty text and no error, or
\* no text and the error information of the last request sent: its type is
\* the classification of what happened to that request and its attempts is
\* the number of requests sent.
C18_FailureInfoReturned ==
    (a_pc = "returned" /\ Fast) =>
        IF a_text = None
        THEN /\ a_error # NoError
             /\ a_sent # <<>>
             /\ a_error.type = Classify(a_sent[Len(a_sent)])
             /\ a_error.type \in {"timeout", "connection", "http_error",
                                  "empty_response", "unknown"}
             /\ a_error.attempts = Len(a_sent)
        ELSE a_text = SomeText /\ a_error = NoError

\* call_ollama_fast gave up after three requests, the last one answered
\* with an empty text
C18_Witness ==
    /\ a_pc = "returned"
    /\ Fast
    /\ a_text = None
    /\ Len(a_sent) = 3
    /\ a_sent[1] = "timeout"
    /\ a_sent[3] = "empty"
    /\ a_error = [type |-> "empty_response", attempts |-> 3]

(***************************************************************************)
(* Claims about filter_and_merge_sections (specification SpecFilter).      *)
(***************************************************************************)
\* the titles of the model that, trimmed, match the front/back-matter
\* pattern whatever their case
FrontBackMatter(title) == title = <<" ", "COVER", " ">>

Range(seq) == {seq[k] : k \in DOMAIN seq}
\* the chapter holds the section at position idx, or some of its text
Holds(c, idx) == idx \in Range(c.parts) \/ Letters[idx] \in Range(c.text)
KeptStatus(c) == c.status \in {"kept", "kept (merged)"}

\* C19: a section whose trimmed title matches the front/back-matter pattern
\* is in no unit - no kept chapter holds it or its text, alone or merged,
\* the word count of every kept chapter is that of its own text - and the
\* only chapter that may hold it is the dry run's entry for it, with the
\* status skipped (front/back matter).
C19_FrontBackMatterDropped ==
    f_pc = "returned" =>
        /\ \A k \in DOMAIN chapters :
              KeptStatus(chapters[k]) =>
                  chapters[k].word_count = count_words(chapters[k].text)
        /\ \A idx \in DOMAIN sections :
              FrontBackMatter(sections[idx][1]) =>
                  \A k \in DOMAIN chapters :
                      Holds(chapters[k], idx) =>
                          /\ dry_run
                          /\ chapters[k].parts = <<idx>>
                          /\ chapters[k].status = "skipped (front/back matter)"

\* in a real run a front-matter section with text stood between two
\* sections that were merged into one unit
C19_Witness ==
    /\ f_pc = "returned"
    /\ ~dry_run
    /\ Len(sections) = 3
    /\ FrontBackMatter(sections[2][1])
    /\ sections[2][2] # <<>>
    /\ Len(chapters) = 1
    /\ chapters[1].parts = <<1, 3>>
    /\ chapters[1].word_count > 0

\* the section is a merge candidate with fewer than min_words words
ShortCandidate(idx) ==
    /\ ~FrontBackMatter(sections[idx][1])
    /\ count_words(sections[idx][2]) < min_words

\* C20: in a real run a section with fewer than min_words words is never
\* discarded for being short - it is in exactly one unit - and that unit is
\* a merged one, never a standalone unit with status kept.
C20_MinWordsFloor ==
    (f_pc = "returned" /\ ~dry_run) =>
        \A idx \in DOMAIN sections :
            ShortCandidate(idx) =>
                /\ Cardinality({k \in DOMAIN chapters :
                                   idx \in Range(chapters[k].parts)}) = 1
                /\ \A k \in DOMAIN chapters :
                      idx \in Range(chapters[k].parts) =>
                          chapters[k].status = "kept (merged)"


\* the positions of the sections that are not front/back matter, in order
Candidates ==
    SelectSeq([idx \in DOMAIN sections |-> idx],
              LAMBDA idx : ~FrontBackMatter(sections[idx][1]))
Words(idx) == count_words(sections[idx][2])
BelowMerge(idx) == Words(idx) < min_words_merge

RECURSIVE WordsOf(_)
WordsOf(parts) ==
    IF parts = <<>> THEN 0 ELSE Words(Head(parts)) + WordsOf(Tail(parts))

RECURSIVE Absorbed(_)
Absorbed(units) ==
    IF units = <<>> THEN 0
    ELSE (Len(Head(units).parts) - 1) + Absorbed(Tail(units))

\* the scenario: a real run in which exactly two candidates, adjacent at
\* positions p and p + 1 of the candidate list, are below min_words_merge
MergeScenario(p) ==
    /\ f_pc = "returned"
    /\ ~dry_run
    /\ p \in 1..(Len(Candidates) - 1)
    /\ \A q \in DOMAIN Candidates :
          BelowMerge(Candidates[q]) <=> q \in {p, p + 1}

Sequential == all_chunks(words, chunk_size)
\* the text is longer than chunk_size, so it was split
WasSplit == JoinedLen(words, Positions(1, Len(words))) > chunk_size
CeilOfRatio(n) ==
    (n * sampling_ratio[1] + sampling_ratio[2] - 1) \div sampling_ratio[2]

\* C22: for a ratio strictly between 0 and 1 and a text split into N >= 2
\* sequential chunks, the selection returned starts with the first chunk,
\* ends with the last one and has at least max(2, ceil(ratio * N)) chunks.
C22_SamplingBounds ==
    (/\ p_pc = "returned"
     /\ WasSplit
     /\ 0 < sampling_ratio[1]
     /\ sampling_ratio[1] < sampling_ratio[2]
     /\ Len(Sequential) >= 2) =>
        /\ selected_chunks[1] = Sequential[1]
        /\ selected_chunks[Len(selected_chunks)] =
               Sequential[Len(Sequential)]
        /\ Len(selected_chunks) >=
               Max(2, CeilOfRatio(Len(Sequential)))


RECURSIVE Flatten(_)
Flatten(seqs) ==
    IF seqs = <<>> THEN <<>> ELSE Head(seqs) \o Flatten(Tail(seqs))

\* C23: for a ratio of 1 or more the chunks returned hold every word of
\* the text, in order: nothing of the text is dropped.
C23_CompleteReading ==
    (p_pc = "returned" /\ sampling_ratio[1] >= sampling_ratio[2]) =>
        Flatten(selected_chunks) = Positions(1, Len(words))


(***************************************************************************)
(* Claims about process_book_fast and retry_failed_chunks (SpecFast).      *)
(***************************************************************************)
\* process_book_fast has returned after its loop over the chunks
FastRunOver ==
    /\ v_fn = "process_book_fast"
    /\ v_pc = "returned"
    /\ v_idx > Len(text_chunks)
\* the chunks of the run for which call_ollama_fast gave no text
FailedIndices ==
    {k \in DOMAIN text_chunks :
        \A j \in DOMAIN chunk_summaries : chunk_summaries[j].index # k}
GlobalCalls ==
    SelectSeq(v_calls, LAMBDA call : call.prompt[1] = "PROMPT_GLOBAL_FAST")

\* C24: after a run of process_book_fast in which at least one chunk
\* failed - all of them included - and no write raised, the failed-chunks
\* file exists and holds exactly one entry for each failed chunk, with its
\* index, its error information and the text of the chunk; and the input of
\* the global reduce holds nothing of a failed chunk.
C24_FailedChunksRecorded ==
    (FastRunOver /\ FailedIndices # {} /\ ~v_io) =>
        /\ failedFile.exists
        /\ {failedFile.content[j].index : j \in DOMAIN failedFile.content}
               = FailedIndices
        /\ Len(failedFile.content) = Cardinality(FailedIndices)
        /\ \A j \in DOMAIN failedFile.content :
              LET fc == failedFile.content[j]
              IN /\ fc.chunk_text = text_chunks[fc.index]
                 /\ fc.error # NoError
                 /\ fc.error.attempts >= 1
        /\ \A j \in DOMAIN GlobalCalls :
              /\ GlobalCalls[j].prompt =
                     PROMPT_GLOBAL_FAST(Join(SummaryTexts(chunk_summaries)))
              /\ \A k \in FailedIndices :
                    Letters[k] \notin Range(GlobalCalls[j].prompt)


\* the indices of the chunks that succeeded in the run of process_book_fast
SucceededIndices ==
    {chunk_summaries[j].index : j \in DOMAIN chunk_summaries}

\* C25: all along a run of retry_failed_chunks the calls of the adapter are
\* those for the chunks listed in the failed-chunks file it loaded, one for
\* each chunk passed so far, in the order of the file, each with the
\* original text of that chunk; none is for a chunk that succeeded in the
\* earlier run, and the output file of the earlier run is as it was.
C25_SelectiveRetry ==
    (v_fn = "retry_failed_chunks" /\ v_pc \in {"retry", "returned"}) =>
        /\ Len(v_calls) = (IF failed_chunks = <<>> THEN 0 ELSE v_idx - 1)
        /\ \A k \in DOMAIN v_calls :
              /\ v_calls[k].prompt =
                     PROMPT_FAST(text_chunks[failed_chunks[k].index])
              /\ failed_chunks[k].index \notin SucceededIndices
        /\ outputFile = v_before
        /\ outputFile.exists =>
               outputFile.content.extracts = chunk_summaries

\* a run of process_book_fast summarized the first of two chunks and wrote
\* its output, the second failed; retry_failed_chunks then resubmitted the
\* second only, recovered it and wrote the recovered summary to its own file
C25_Witness ==
    /\ v_fn = "retry_failed_chunks"
    /\ v_pc = "returned"
    /\ Len(text_chunks) = 2
    /\ SucceededIndices = {1}
    /\ outputFile.exists
    /\ v_calls = <<Call(PROMPT_FAST(text_chunks[2]), 4)>>
    /\ Len(recovered_summaries) = 1
    /\ recovered_summaries[1].index = 2
    /\ recoveredFile.exists
    /\ ~failedFile.exists


(***************************************************************************)
(* Further claims about process_book (specification Spec).                 *)
(***************************************************************************)
IsPrefix(a, b) == Len(a) <= Len(b) /\ SubSeq(b, 1, Len(a)) = a
\* the step is the global reduce of the run, and it failed
GlobalReduceFails == pc = "loop" /\ pc' = "done" /\ faults' # faults
\* the step produces the summary of unit i: summarize_chapter returns it,
\* or it is read from the file of a skipped unit
ProducesSummary ==
    \/ pc = "loop" /\ pc' = "open"
    \/ skipped' # skipped /\ runs' = runs
\* the units of chapter_summaries are in increasing order of index
InIndexOrder(summaries) ==
    \A k \in 1..(Len(summaries) - 1) :
        summaries[k].title[2] < summaries[k + 1].title[2]

UnitsPresent ==
    {k \in DOMAIN n_units :
        FileNameText(n_units[k].idx, n_units[k].title, n_units[k].hash)
            \in n_dir}

\* C28: the name built for (index, title, hash) is parsed back by the scan
\* to the same (index, hash), for every index, title and hash: the scan of
\* a directory gives exactly the map from index to hash of the files in it.
C28_FilenameRoundTrip ==
    n_pc = "scanned" =>
        /\ DOMAIN n_existing = {n_units[k].idx : k \in UnitsPresent}
        /\ \A k \in UnitsPresent :
              n_existing[n_units[k].idx] = n_units[k].hash


(***************************************************************************)
(* Claims about the order of the steps of one unit and about the indices   *)
(* of the checkpoint (specification Spec).                                 *)
(***************************************************************************)
\* the state lists idx as completed with hash h
Lists(state, idx, h) ==
    /\ InCompleted(state, idx)
    /\ idx \in DOMAIN state.chapter_hashes
    /\ state.chapter_hashes[idx] = h

\* state.json, as load_resume_state reads it, lists (idx, h)
Checkpointed(file, idx, h) ==
    /\ load_resume_state(file).found
    /\ Lists(load_resume_state(file).state, idx, h)

\* the file of (idx, h) holds the summary of the unit in flight
ArtifactWritten(dir, idx, h) ==
    \E f \in MatchingFiles(dir, idx, h) :
        dir[f] = summary /\ summary # NoSummary

UnitHashes == {compute_hash(text) : text \in Texts}

\* the steps of a run that touch the chapter file, the held state and
\* state.json of the unit in flight
WritesArtifact == pc \in {"open", "write"} /\ chaptersDir' # chaptersDir
UpdatesCheckpoint ==
    pc = "write" /\ pc' = "save" /\ resume_state' # resume_state
SavesCheckpoint == pc \in {"save", "dump"} /\ stateFile' # stateFile
StartsNextUnit == Running /\ pc' = "loop" /\ i' = i + 1

\* C29: for each unit of a run the summary is computed, then the chapter
\* file is written, then the checkpoint is updated and saved, then the next
\* unit is started; and state.json never comes to list (idx, h) as
\* completed while no chapter file of (idx, h) has been written.
C29_PerUnitOrdering ==
    [][/\ WritesArtifact =>
            /\ i \in summarized
            /\ summary = Summary(args_model, kept[i])
       /\ UpdatesCheckpoint =>
            /\ ArtifactWritten(chaptersDir', i, text_hash)
            /\ resume_state' = MarkCompleted(resume_state, i, text_hash)
       /\ SavesCheckpoint =>
            /\ ArtifactWritten(chaptersDir, i, text_hash)
            /\ Lists(resume_state, i, text_hash)
       /\ StartsNextUnit =>
            /\ pc \in {"loop", "dump"} \/ ioFailed'
            /\ (pc = "dump" /\ ~ioFailed') =>
                   /\ Checkpointed(stateFile', i, text_hash)
                   /\ ArtifactWritten(chaptersDir', i, text_hash)
       /\ \A idx \in 1..MaxUnits, h \in UnitHashes :
            (/\ Checkpointed(stateFile', idx, h)
             /\ MatchingFiles(chaptersDir', idx, h) = {}) =>
                /\ Checkpointed(stateFile, idx, h) \/ Lists(resume_state, idx, h)
                /\ \/ MatchingFiles(chaptersDir, idx, h) = {}
                   \/ ~Running
      ]_vars

\* the first unit went through its four steps, the second one is started
\* and its summary computed: state.json lists the first unit only
C29_Witness ==
    /\ pc = "open"
    /\ i = 2
    /\ persisted = {1}
    /\ summarized = {1, 2}
    /\ Checkpointed(stateFile, 1, compute_hash(kept[1]))
    /\ ~Checkpointed(stateFile, 2, compute_hash(kept[2]))
    /\ MatchingFiles(chaptersDir, 2, compute_hash(kept[2])) = {}


\* every index of state.completed lies in 1..state.total_chapters
CompletedWithinTotal(state) ==
    \A k \in 1..Len(state.completed) :
        /\ state.completed[k] >= 1
        /\ state.completed[k] <= state.total_chapters

\* C30: in every checkpoint state held by process_book or saved in
\* state.json, after any sequence of runs, also when the number of units of
\* the document changed, every index of completed lies in
\* [1, total_chapters].
C30_CompletedWithinTotal ==
    /\ CompletedWithinTotal(resume_state)
    /\ load_resume_state(stateFile).found =>
           CompletedWithinTotal(load_resume_state(stateFile).state)


\* every completed index of the state has a hash
CompletedHaveHashes(state) ==
    \A k \in 1..Len(state.completed) :
        state.completed[k] \in DOMAIN state.chapter_hashes

\* the state as state.json holds it, the empty state if it cannot be read
SavedState(file) ==
    IF load_resume_state(file).found THEN load_resume_state(file).state
    ELSE EmptyState

\* the state lists (idx, h) after the step and did not before it
NewlyListed(before, after, idx, h) ==
    Lists(after, idx, h) /\ ~Lists(before, idx, h)

\* C31: in every checkpoint state held by process_book or saved in
\* state.json every completed index has an entry in chapter_hashes, and
\* the entry is the hash the unit had when its summary was written: the
\* held state comes to list (idx, h) only by the step that writes the
\* summary of unit idx of hash h, or by loading state.json, and state.json
\* only by saving the held state.
C31_CompletedHaveFingerprints ==
    [][/\ CompletedHaveHashes(resume_state')
       /\ CompletedHaveHashes(SavedState(stateFile'))
       /\ \A idx \in 1..MaxUnits, h \in UnitHashes :
            /\ NewlyListed(resume_state, resume_state', idx, h) =>
                  \/ /\ pc = "write"
                     /\ idx = i
                     /\ h = compute_hash(kept[i])
                     /\ ArtifactWritten(chaptersDir', idx, h)
                  \/ /\ Stopped
                     /\ Lists(SavedState(stateFile), idx, h)
            /\ NewlyListed(SavedState(stateFile), SavedState(stateFile'),
                           idx, h) =>
                  Lists(resume_state, idx, h)
      ]_vars

\* a unit completed by an earlier run changed its text: the run wrote its
\* new summary and the held and the saved state list it with the new hash
C31_Witness ==
    /\ pc = "loop"
    /\ 1 \in persisted
    /\ 1 \in prev.persisted
    /\ prev.kept[1] # kept[1]
    /\ prev.model = args_model
    /\ Lists(resume_state, 1, compute_hash(kept[1]))
    /\ Lists(SavedState(stateFile), 1, compute_hash(kept[1]))
    /\ ~Lists(resume_state, 1, compute_hash(prev.kept[1]))


\* the chapter files of unit idx
FilesOf(dir, idx) == {f \in DOMAIN dir : f.idx = idx}

\* C32: after any sequence of runs, also when the text of a unit and so its
\* hash changed, the chapters directory holds at most one file per unit
\* index, the one of the hash that state.json records for the index.
C32_OneArtifactPerIndex ==
    pc = "done" =>
        \A idx \in 1..MaxUnits :
            /\ Cardinality(FilesOf(chaptersDir, idx)) <= 1
            /\ \A f \in FilesOf(chaptersDir, idx) :
                  InCompleted(SavedState(stateFile), idx) =>
                      Lists(SavedState(stateFile), idx, f.hash)


(***************************************************************************)
(* Claim about the MAP-REDUCE steps of summarize_chapter (SpecSum).        *)
(***************************************************************************)
\* part is made of elements of whole, in the order of whole
RECURSIVE IsSubsequence(_, _)
IsSubsequence(part, whole) ==
    IF part = <<>> THEN TRUE
    ELSE IF whole = <<>> THEN FALSE
    ELSE IF part[1] = whole[1]
         THEN \/ IsSubsequence(Tail(part), Tail(whole))
              \/ IsSubsequence(part, Tail(whole))
         ELSE IsSubsequence(part, Tail(whole))

\* the MAP calls made so far: one per chunk, in chunk order
MapCallsInOrder(n) ==
    /\ Len(s_calls) >= n
    /\ \A k \in 1..n : s_calls[k] = MapCall(s_chunks[k])

\* C33: for a text longer than the threshold every chunk is summarised by
\* one call; the chunks whose call fails are dropped; with no partial
\* summary the unit fails and no REDUCE call is made; otherwise exactly one
\* REDUCE call is made, on the surviving partial summaries joined in chunk
\* order, and what it returns is the result.
C33_MapReduceSteps ==
    /\ s_pc = "map" =>
          /\ Len(s_calls) = s_idx - 1
          /\ MapCallsInOrder(s_idx - 1)
          /\ IsSubsequence(s_partial,
                [k \in 1..(s_idx - 1) |-> Summarize(s_chunks[k])])
    /\ (s_pc = "returned" /\ ~IsShort(s_text, s_max_chars)) =>
          /\ MapCallsInOrder(Len(s_chunks))
          /\ IsSubsequence(s_partial,
                [k \in 1..Len(s_chunks) |-> Summarize(s_chunks[k])])
          /\ IF s_partial = <<>>
             THEN /\ Len(s_calls) = Len(s_chunks)
                  /\ s_result = None
             ELSE /\ Len(s_calls) = Len(s_chunks) + 1
                  /\ s_calls[Len(s_calls)] = ReduceCall(Join(s_partial))
                  /\ s_result \in Replies(Join(s_partial))

\* three chunks, the call of the second one failed: the REDUCE call was
\* made on the summaries of the first and the third and gave the result
C33_Witness ==
    /\ s_pc = "returned"
    /\ Len(s_chunks) = 3
    /\ s_partial = <<Summarize(s_chunks[1]), Summarize(s_chunks[3])>>
    /\ s_chunks[2] # s_chunks[1]
    /\ s_chunks[2] # s_chunks[3]
    /\ Len(s_calls) = 4
    /\ s_result = Summarize(Join(s_partial))


(***************************************************************************)
(* Claims about the units of filter_and_merge_sections (SpecFilter).       *)
(***************************************************************************)
RECURSIVE AllParts(_)
\* the sections of the units, unit after unit
AllParts(units) ==
    IF units = <<>> THEN <<>>
    ELSE Head(units).parts \o AllParts(Tail(units))

\* the unit that holds the candidate at position q of the candidate list
UnitOf(q) ==
    CHOOSE k \in DOMAIN chapters : Candidates[q] \in Range(chapters[k].parts)

\* the words the buffer held once the candidate at position q was in it
BufferWords(q) ==
    LET parts == chapters[UnitOf(q)].parts
        j == CHOOSE x \in DOMAIN parts : parts[x] = Candidates[q]
    IN WordsOf(SubSeq(parts, 1, j))

\* C34: in a real run the units hold the candidates in document order; the
\* next candidate is in the unit of the one before it if and only if the
\* buffer's words are below target_words_merge or its own words are below
\* min_words_merge; a unit has the title of its first section; so every
\* candidate below min_words_merge but the first is in the unit of the
\* candidate before it.
C34_MergeRule ==
    (f_pc = "returned" /\ ~dry_run) =>
        /\ AllParts(chapters) = Candidates
        /\ \A k \in DOMAIN chapters :
              chapters[k].title = sections[chapters[k].parts[1]][1]
        /\ \A q \in 1..(Len(Candidates) - 1) :
              /\ UnitOf(q + 1) = UnitOf(q) <=>
                    \/ BufferWords(q) < target_words_merge
                    \/ BelowMerge(Candidates[q + 1])
              /\ UnitOf(q + 1) \in {UnitOf(q), UnitOf(q) + 1}
              /\ BelowMerge(Candidates[q + 1]) => UnitOf(q + 1) = UnitOf(q)

\* three candidates: the second joined the first while the buffer was below
\* the target, the third, not below min_words_merge, found the buffer at
\* the target and started a unit of its own
C34_Witness ==
    /\ f_pc = "returned"
    /\ ~dry_run
    /\ Len(Candidates) = 3
    /\ Len(chapters) = 2
    /\ chapters[1].parts = <<1, 2>>
    /\ chapters[2].parts = <<3>>
    /\ ~BelowMerge(2)
    /\ Words(1) < target_words_merge
    /\ Words(1) + Words(2) >= target_words_merge
    /\ ~BelowMerge(3)


\* the texts of the sections a unit holds, in the order the unit holds them
TextsOf(parts) == [j \in DOMAIN parts |-> sections[parts[j]][2]]

\* C35: in a real run a unit that absorbed more than one section has the
\* texts of its sections, in document order, joined by a blank line, and
\* its hash is computed over that text, which is the text of none of its
\* sections; the units are numbered 1..n in document order.
C35_MergedTextAndHash ==
    (f_pc = "returned" /\ ~dry_run) =>
        /\ \A k \in DOMAIN chapters :
              /\ chapters[k].index = k
              /\ chapters[k].text = JoinTexts(TextsOf(chapters[k].parts))
              /\ chapters[k].hash = compute_hash(chapters[k].text)
              /\ Len(chapters[k].parts) > 1 =>
                    /\ chapters[k].status = "kept (merged)"
                    /\ \A j \in DOMAIN chapters[k].parts :
                          chapters[k].text # sections[chapters[k].parts[j]][2]
        /\ \A j, k \in DOMAIN AllParts(chapters) :
              j < k => AllParts(chapters)[j] < AllParts(chapters)[k]

\* two units: the first holds sections 1 and 2, both with text, and has
\* the hash of the joined text, which is not the hash of section 1
C35_Witness ==
    /\ f_pc = "returned"
    /\ ~dry_run
    /\ Len(chapters) = 2
    /\ chapters[1].parts = <<1, 2>>
    /\ chapters[2].index = 2
    /\ Words(1) > 0
    /\ Words(2) > 0
    /\ chapters[1].text = sections[1][2] \o <<"\n", "\n">> \o sections[2][2]
    /\ chapters[1].hash # compute_hash(sections[1][2])


(***************************************************************************)
(* Claim about failed writes in process_book (specification Spec).         *)
(***************************************************************************)
\* the run produced the summary of unit idx and went on to the next unit
\* without both writing its file and saving the checkpoint
PersistenceFailed(idx) ==
    /\ idx < i
    /\ idx \in summarized
    /\ \E k \in DOMAIN chapter_summaries :
          chapter_summaries[k].title = Title(idx)
    /\ idx \notin persisted

\* C36: when writing the chapter file or state.json of a unit fails, the
\* unit is not recorded as completed in state.json, the failure is reported
\* for the unit, and the run goes on with the next unit.
C36_PersistenceFailure ==
    (Running \/ pc = "done") =>
        \A idx \in DOMAIN kept :
            PersistenceFailed(idx) =>
                /\ ioFailed
                /\ ~Lists(SavedState(stateFile), idx, compute_hash(kept[idx]))


(***************************************************************************)
(* Claim about the termination of chunk_text (specification SpecChunk).    *)
(***************************************************************************)
\* C37: for every text and every 0 <= overlap < max_size the start of the
\* window strictly increases from one iteration of chunk_text to the next
\* and is never negative, so the loop ends and the chunks are returned.
C37_ChunkTextTerminates ==
    (c_overlap < c_max_size) =>
        /\ c_start >= 0
        /\ \A k \in 1..(Len(c_windows) - 1) :
              c_windows[k][1] < c_windows[k + 1][1]
        /\ (c_pc = "while" /\ c_windows # <<>>) =>
              c_windows[Len(c_windows)][1] < c_start
        /\ c_pc # "overflow"


(***************************************************************************)
(* Claim about the bound of an adapter call (specification                 *)
(* SpecAdapterFair).                                                       *)
(***************************************************************************)
\* the requests and the sleeps of the call so far are within the bound
AdapterBounded ==
    /\ Len(a_sent) <= max_retries
    /\ Len(a_slept) <= max_retries - 1
    /\ \A k \in DOMAIN a_slept :
          /\ a_slept[k].after < max_retries
          /\ a_slept[k].after <= Len(a_sent)
          /\ \A j \in DOMAIN a_slept : j < k => a_slept[j].after < a_slept[k].after
          /\ a_pc # "loop" => a_slept[k].after < Len(a_sent)

\* C38: for every sequence of outcomes of the service a call of
\* call_ollama_fast or of call_ollama sends at most max_retries requests,
\* sleeps only between two requests, so at most max_retries - 1 times and
\* never after the last request, and then returns.
C38_AdapterBounded ==
    /\ []AdapterBounded
    /\ <>(a_pc = "returned")

\* max_retries requests were sent, every one of them timed out, and the
\* call returned having slept max_retries - 1 times
C38_Witness ==
    /\ a_pc = "returned"
    /\ max_retries = MaxRetries
    /\ Len(a_sent) = max_retries
    /\ \A k \in DOMAIN a_sent : a_sent[k] = "timeout"
    /\ Len(a_slept) = max_retries - 1
    /\ a_text = None


(***************************************************************************)
(* Claim about the positional checkpoint of riassumi.py (specification     *)
(* SpecPositional).                                                        *)
(***************************************************************************)
HasSummary(summaries, c) == \E j \in 1..Len(summaries) : summaries[j] = c

EntriesOf(summaries, c) == {j \in 1..Len(summaries) : summaries[j] = c}

InChapterOrder(summaries) ==
    \A j, k \in 1..Len(summaries) : j < k => summaries[j] < summaries[k]

\* C39: in a run of process_book that resumed from a checkpoint, a chapter
\* the loop has passed was skipped if the checkpoint held a summary of it
\* and was processed if it held none, and chapter_summaries holds at most
\* one entry for each chapter, in chapter order
C39_PositionalResume ==
    k_resumed =>
        /\ \A c \in 1..k_chapters :
              c < k_idx =>
                  (c \in k_processed <=> ~HasSummary(k_loaded, c))
        /\ \A c \in 1..k_chapters :
              Cardinality(EntriesOf(k_summaries, c)) <= 1
        /\ InChapterOrder(k_summaries)


(***************************************************************************)
(* Claim about the dry run of filter_and_merge_sections (SpecFilter).      *)
(***************************************************************************)
\* what the call returns with the given dry_run, the other arguments being
\* those of the call the state records
ResultWith(dry) ==
    IF dry = dry_run THEN chapters
    ELSE filter_and_merge_sections(sections, min_words, min_words_merge,
                                   target_words_merge, dry)

SkippedStatus(c) ==
    c.status \in {"skipped (front/back matter)", "skipped (< min_words)"}

\* the dry run lists the section with a kept (with a skipped) status
ListedKept(idx) ==
    \E k \in DOMAIN ResultWith(TRUE) :
        /\ ResultWith(TRUE)[k].index = idx
        /\ KeptStatus(ResultWith(TRUE)[k])
ListedSkipped(idx) ==
    \E k \in DOMAIN ResultWith(TRUE) :
        /\ ResultWith(TRUE)[k].index = idx
        /\ SkippedStatus(ResultWith(TRUE)[k])

\* the real run puts the section into one of its units
InRealUnit(idx) == idx \in Range(AllParts(ResultWith(FALSE)))

\* C40: for the same sections and thresholds, a section is in a unit of the
\* real run exactly if the dry run lists it with a kept status, and every
\* other section is listed by the dry run with a skipped status
C40_DryRunAgrees ==
    f_pc = "returned" =>
        \A idx \in DOMAIN sections :
            /\ InRealUnit(idx) <=> ListedKept(idx)
            /\ ~InRealUnit(idx) => ListedSkipped(idx)

====
